---- MODULE Spec2Model ----
(***************************************************************************)
(* Model of the FTL Orchestrator routing core:                             *)
(*   src/src/Orchestrator.cpp, src/src/StreamStore.h,                      *)
(*   src/src/SubscriptionStore.h                                           *)
(* Connections are handed to the Orchestrator, introduce themselves,       *)
(* publish streams and subscribe to channels; the Orchestrator keeps the   *)
(* two stores and sends StreamRelay requests to the streams' origins.      *)
(***************************************************************************)
EXTENDS Bags, FiniteSets, Integers, Sequences, TLC

(***************************************************************************)
(* Finite universes the inputs are drawn from.                             *)
(***************************************************************************)
\* The connection objects, in the order the accept loop creates them.
ConnOrder == <<"c1", "c2">>
Conns == {ConnOrder[i] : i \in 1..Len(ConnOrder)}
Channels == {1, 2}
StreamIds == {1, 2}
Keys == {"k1", "k2"}
Hostnames == {"h1", "h2"}

\* FtlConnection is constructed with an empty hostname.
NoHostname == ""
\* closeRoute sends an empty stream key.
EmptyKey == ""

\* Bounds of the model: the number of events (handler invocations) of a run of
\* Spec, and the number of handlers begun in a run of ConcSpec.
MaxEvents == 5
MaxHandlers == 3

VARIABLES
    connState,            \* per connection: "none" (not yet accepted), "open", "closed"
    hostname,             \* per connection: IConnection hostname
    pendingConnections,   \* Orchestrator::pendingConnections
    connections,          \* Orchestrator::connections
    isStopping,           \* Orchestrator::isStopping
    listening,            \* the connection manager's Listen() loop is running
    streamStore,          \* Orchestrator::streamStore
    subscriptions,        \* Orchestrator::subscriptions
    net,                  \* history: per (channel, subscriber), start minus stop relays sent
    last,                 \* history: the handler that ran last, its inputs, result, relays
    nEvents,              \* history: number of events handled so far
    introHandled,         \* history: connections whose Intro has been handled
    subscribedKeys,       \* history: per (connection, channel), the keys of its Subscribes
                          \* since its last Unsubscribe, oldest first
    task,                 \* per connection: the handler its I/O task is in the middle of
    ftl,                  \* one FtlConnection, its peer and its transport's byte streams
    tls,                  \* one TlsConnectionTransport
    codec                 \* a header handed to SerializeMessageHeader and what came back

connVars == <<connState, hostname, pendingConnections, connections, introHandled>>
runVars == <<isStopping, listening>>
storeVars == <<streamStore, subscriptions, subscribedKeys>>

\* The variables of the layers below the Orchestrator.
wireVars == <<ftl, tls, codec>>

vars == <<connState, hostname, pendingConnections, connections, isStopping,
          listening, streamStore, subscriptions, net, last, nEvents,
          introHandled, subscribedKeys, task, ftl, tls, codec>>

(***************************************************************************)
(* Helpers on maps (std::map) and bags (std::set of distinct shared_ptr).  *)
(***************************************************************************)
MapErase(m, k) == [x \in (DOMAIN m) \ {k} |-> m[x]]

MapPut(m, k, v) == [x \in (DOMAIN m) \cup {k} |-> IF x = k THEN v ELSE m[x]]

BagFilter(B, Keep(_)) == [e \in {x \in DOMAIN B : Keep(x)} |-> B[e]]

BagOf(e) == SetToBag({e})

(***************************************************************************)
(* Stream and StreamStore.                                                 *)
(***************************************************************************)
Stream(ingestConnection, channelId, streamId) ==
    [IngestConnection |-> ingestConnection, ChannelId |-> channelId, StreamId |-> streamId]

EmptyStreamStore ==
    [streamByChannelId |-> <<>>, streamsByIngestConnection |-> <<>>]

\* A StreamStore whose AddStream accepts a stream for a channel that has one.
AddStreamThrows_Never(store, stream) ==
    FALSE

\* AddStream throws std::runtime_error when the channel already has a stream.
AddStreamThrows(store, stream) ==
    stream.ChannelId \in DOMAIN store.streamByChannelId

AddStream(store, stream) ==
    LET byIngest == store.streamsByIngestConnection
        ic == stream.IngestConnection
        oldList == IF ic \in DOMAIN byIngest THEN byIngest[ic] ELSE <<>>
    IN  [streamByChannelId |-> MapPut(store.streamByChannelId, stream.ChannelId, stream),
         streamsByIngestConnection |-> MapPut(byIngest, ic, Append(oldList, stream))]

\* The result is the new store and the optional removed stream ({} is nullopt).
RemoveStream(store, channelId, streamId) ==
    IF channelId \in DOMAIN store.streamByChannelId
    THEN LET returnStream == store.streamByChannelId[channelId]
             byChannel == MapErase(store.streamByChannelId, channelId)
             byIngest == store.streamsByIngestConnection
             ic == returnStream.IngestConnection
         IN  IF ic \notin DOMAIN byIngest
             THEN [store |-> [streamByChannelId |-> byChannel,
                              streamsByIngestConnection |-> byIngest],
                   removed |-> {}]
             ELSE LET streamList ==
                          SelectSeq(byIngest[ic],
                                    LAMBDA s : ~(s.ChannelId = channelId /\ s.StreamId = streamId))
                  IN  [store |-> [streamByChannelId |-> byChannel,
                                  streamsByIngestConnection |->
                                      IF streamList = <<>>
                                      THEN MapErase(byIngest, ic)
                                      ELSE MapPut(byIngest, ic, streamList)],
                       removed |-> {returnStream}]
    ELSE [store |-> store, removed |-> {}]

\* std::optional<Stream>: {} is nullopt.
GetStreamByChannelId(store, channelId) ==
    IF channelId \in DOMAIN store.streamByChannelId
    THEN {store.streamByChannelId[channelId]}
    ELSE {}

\* A RemoveAllConnectionStreams that forgets the by-channel index.
RemoveAllConnectionStreams_ListOnly(store, connection) ==
    [streamByChannelId |-> store.streamByChannelId,
     streamsByIngestConnection |-> MapErase(store.streamsByIngestConnection, connection)]

RemoveAllConnectionStreams(store, connection) ==
    IF connection \in DOMAIN store.streamsByIngestConnection
    THEN LET streams == store.streamsByIngestConnection[connection]
             erased == {streams[i].ChannelId : i \in 1..Len(streams)}
         IN  [streamByChannelId |->
                  [ch \in (DOMAIN store.streamByChannelId) \ erased |->
                      store.streamByChannelId[ch]],
              streamsByIngestConnection |->
                  MapErase(store.streamsByIngestConnection, connection)]
    ELSE store

(***************************************************************************)
(* ChannelSubscription and SubscriptionStore.  Every AddSubscription       *)
(* allocates a new ChannelSubscription object and the sets are ordered by  *)
(* object address, so a set of shared_ptr is a bag of subscription values. *)
(***************************************************************************)
ChannelSubscription(connection, channelId, streamKey) ==
    [SubscribedConnection |-> connection, ChannelId |-> channelId, StreamKey |-> streamKey]

EmptySubscriptionStore ==
    [subscriptionsByConnection |-> <<>>, subscriptionsByChannel |-> <<>>]

AddSubscription(store, connection, channelId, streamKey) ==
    LET subscription == ChannelSubscription(connection, channelId, streamKey)
        byConn == store.subscriptionsByConnection
        byChan == store.subscriptionsByChannel
        connSubs == IF connection \in DOMAIN byConn THEN byConn[connection] ELSE EmptyBag
        chanSubs == IF channelId \in DOMAIN byChan THEN byChan[channelId] ELSE EmptyBag
    IN  [subscriptionsByConnection |-> MapPut(byConn, connection, connSubs (+) BagOf(subscription)),
         subscriptionsByChannel |-> MapPut(byChan, channelId, chanSubs (+) BagOf(subscription))]

\* A SubscriptionStore whose RemoveSubscription forgets the by-connection
\* index.
RemoveSubscription_ByChannelOnly(store, connection, channelId) ==
    LET byChan == store.subscriptionsByChannel
        chanHit == channelId \in DOMAIN byChan
                   /\ \E sub \in DOMAIN byChan[channelId] : sub.SubscribedConnection = connection
    IN  [store |-> [subscriptionsByConnection |-> store.subscriptionsByConnection,
                    subscriptionsByChannel |->
                        IF channelId \in DOMAIN byChan
                        THEN MapPut(byChan, channelId,
                                    BagFilter(byChan[channelId],
                                              LAMBDA sub : sub.SubscribedConnection # connection))
                        ELSE byChan],
         success |-> chanHit]

\* A SubscriptionStore whose RemoveSubscription forgets the by-channel index.
RemoveSubscription_ByConnectionOnly(store, connection, channelId) ==
    LET byConn == store.subscriptionsByConnection
        connHit == connection \in DOMAIN byConn
                   /\ \E sub \in DOMAIN byConn[connection] : sub.ChannelId = channelId
    IN  [store |-> [subscriptionsByConnection |->
                        IF connection \in DOMAIN byConn
                        THEN MapPut(byConn, connection,
                                    BagFilter(byConn[connection],
                                              LAMBDA sub : sub.ChannelId # channelId))
                        ELSE byConn,
                    subscriptionsByChannel |-> store.subscriptionsByChannel],
         success |-> connHit]

\* The result is the new store and the bool the method returns.
RemoveSubscription(store, connection, channelId) ==
    LET byConn == store.subscriptionsByConnection
        byChan == store.subscriptionsByChannel
        connHit == connection \in DOMAIN byConn
                   /\ \E sub \in DOMAIN byConn[connection] : sub.ChannelId = channelId
        chanHit == channelId \in DOMAIN byChan
                   /\ \E sub \in DOMAIN byChan[channelId] : sub.SubscribedConnection = connection
        newByConn == IF connection \in DOMAIN byConn
                     THEN MapPut(byConn, connection,
                                 BagFilter(byConn[connection],
                                           LAMBDA sub : sub.ChannelId # channelId))
                     ELSE byConn
        newByChan == IF channelId \in DOMAIN byChan
                     THEN MapPut(byChan, channelId,
                                 BagFilter(byChan[channelId],
                                           LAMBDA sub : sub.SubscribedConnection # connection))
                     ELSE byChan
    IN  [store |-> [subscriptionsByConnection |-> newByConn,
                    subscriptionsByChannel |-> newByChan],
         success |-> connHit /\ chanHit]

GetSubscriptionsOfConnection(store, connection) ==
    IF connection \in DOMAIN store.subscriptionsByConnection
    THEN store.subscriptionsByConnection[connection]
    ELSE EmptyBag

GetSubscriptionsOfChannel(store, channelId) ==
    IF channelId \in DOMAIN store.subscriptionsByChannel
    THEN store.subscriptionsByChannel[channelId]
    ELSE EmptyBag

\* ClearSubscriptions throws when, at a subscription of the connection, the
\* by-channel index has no entry for its channel: the entry was never there,
\* or the loop erased it (it became empty) before the connection's last
\* subscription to that channel was visited.
ClearSubscriptionsThrows(store, connection) ==
    /\ connection \in DOMAIN store.subscriptionsByConnection
    /\ LET mine == store.subscriptionsByConnection[connection]
           byChan == store.subscriptionsByChannel
           mineOn(ch) == BagFilter(mine, LAMBDA sub : sub.ChannelId = ch)
       IN  \E ch \in {sub.ChannelId : sub \in DOMAIN mine} :
               \/ ch \notin DOMAIN byChan
               \/ /\ byChan[ch] \sqsubseteq mineOn(ch)
                  /\ byChan[ch] # mineOn(ch)
                  /\ BagCardinality(mineOn(ch)) >= 2

\* A ClearSubscriptions that erases the connection's entry and leaves the
\* by-channel index alone.
ClearSubscriptions_ByConnectionOnly(store, connection) ==
    [store EXCEPT !.subscriptionsByConnection =
        MapErase(store.subscriptionsByConnection, connection)]

ClearSubscriptions(store, connection) ==
    IF connection \in DOMAIN store.subscriptionsByConnection
    THEN LET mine == store.subscriptionsByConnection[connection]
             byChan == store.subscriptionsByChannel
             touched == {sub.ChannelId : sub \in DOMAIN mine}
             remaining(ch) == byChan[ch] (-) BagFilter(mine, LAMBDA sub : sub.ChannelId = ch)
             emptied == {ch \in touched \cap DOMAIN byChan : remaining(ch) = EmptyBag}
         IN  [subscriptionsByConnection |->
                  MapErase(store.subscriptionsByConnection, connection),
              subscriptionsByChannel |->
                  [ch \in (DOMAIN byChan) \ emptied |->
                      IF ch \in touched THEN remaining(ch) ELSE byChan[ch]]]
    ELSE store

(***************************************************************************)
(* Orchestrator: routes.                                                   *)
(***************************************************************************)
\* A StreamRelay request handed to connection To.  Target is the edge
\* connection the request is about (its hostname is what goes on the wire).
RelayPayload(to, isStartRelay, channelId, streamId, target, streamKey) ==
    [To |-> to, IsStartRelay |-> isStartRelay, ChannelId |-> channelId,
     StreamId |-> streamId, TargetHostname |-> hostname[target],
     Target |-> target, StreamKey |-> streamKey]

\* An openRoute that leaves the stream key out of the request.
openRoute_NoKey(stream, edgeConnection, streamKey) ==
    RelayPayload(stream.IngestConnection, TRUE, stream.ChannelId, stream.StreamId,
                 edgeConnection, EmptyKey)

openRoute(stream, edgeConnection, streamKey) ==
    RelayPayload(stream.IngestConnection, TRUE, stream.ChannelId, stream.StreamId,
                 edgeConnection, streamKey)

closeRoute(stream, edgeConnection) ==
    RelayPayload(stream.IngestConnection, FALSE, stream.ChannelId, stream.StreamId,
                 edgeConnection, EmptyKey)

\* Number of requests in a bag of sent requests that satisfy Test.
CountSent(sent, Test(_)) == BagCardinality(BagFilter(sent, Test))

\* start relays minus stop relays per (channel, subscriber) after sending `sent`.
NetAfter(sent) ==
    [p \in Channels \X Conns |->
        net[p]
        + CountSent(sent, LAMBDA m : m.IsStartRelay /\ m.ChannelId = p[1] /\ m.Target = p[2])
        - CountSent(sent, LAMBDA m : ~m.IsStartRelay /\ m.ChannelId = p[1] /\ m.Target = p[2])]

Send(sent) == net' = NetAfter(sent)

\* What a handler leaves behind for the properties to look at: its inputs,
\* its result ("success"/"failure" of the ConnectionResult, "void", or
\* "threw" when an exception left it), the relays it sent, the log lines it
\* wrote, and the stores as they were when it started.  No code of the
\* repository catches an exception: on an FtlConnection's thread it ends the
\* process, a caller of a MockConnection's callback sees it.  The model goes
\* on after a handler threw, which covers both (the process ending only
\* removes behaviours).
Handled(op, conn, channelId, streamId, streamKey, result, sent, logs) ==
    [op |-> op, conn |-> conn, channelId |-> channelId, streamId |-> streamId,
     streamKey |-> streamKey, result |-> result, sent |-> sent, logs |-> logs,
     preStreams |-> streamStore, preSubscriptions |-> subscriptions,
     wasStopping |-> isStopping]

\* The end of a handler: it is recorded and counted.
Done(op, conn, channelId, streamId, streamKey, result, sent, logs) ==
    /\ nEvents < MaxEvents
    /\ nEvents' = nEvents + 1
    /\ last' = Handled(op, conn, channelId, streamId, streamKey, result, sent, logs)
    /\ UNCHANGED wireVars

IdleTask ==
    [pc |-> "idle", op |-> "none", channelId |-> 0, streamId |-> 0,
     streamKey |-> EmptyKey, stream |-> {}, subs |-> EmptyBag, sent |-> EmptyBag,
     result |-> "void"]

(***************************************************************************)
(* FtlConnection: the header codec.  A byte is a number in 0..255; bigEndian *)
(* says whether the build's std::endian::native is std::endian::big.       *)
(***************************************************************************)
MessageType_Intro == 0
MessageType_Outro == 1
MessageType_NodeState == 2
MessageType_ChannelSubscription == 16
MessageType_StreamPublish == 17
MessageType_StreamRelay == 20
MessageTypes ==
    {MessageType_Intro, MessageType_Outro, MessageType_NodeState,
     MessageType_ChannelSubscription, MessageType_StreamPublish, MessageType_StreamRelay}

\* A ConvertToNetworkPayload that puts the bytes in the other order.
ConvertToNetworkPayload16_Swapped(value, bigEndian) ==
    IF ~bigEndian
    THEN <<(value \div 256) % 256, value % 256>>
    ELSE <<value % 256, (value \div 256) % 256>>

ConvertToNetworkPayload16(value, bigEndian) ==
    IF ~bigEndian
    THEN <<value % 256, (value \div 256) % 256>>
    ELSE <<(value \div 256) % 256, value % 256>>

ConvertToNetworkPayload32(value, bigEndian) ==
    IF ~bigEndian
    THEN <<value % 256, (value \div 256) % 256,
           (value \div 65536) % 256, (value \div 16777216) % 256>>
    ELSE <<(value \div 16777216) % 256, (value \div 65536) % 256,
           (value \div 256) % 256, value % 256>>

\* The two bytes at positions from, from + 1 of bytes.
DeserializeNetworkUint16(bytes, from, bigEndian) ==
    IF ~bigEndian
    THEN bytes[from + 1] * 256 + bytes[from]
    ELSE bytes[from] * 256 + bytes[from + 1]

\* The four bytes at positions from .. from + 3 of bytes.
DeserializeNetworkUint32(bytes, from, bigEndian) ==
    IF ~bigEndian
    THEN bytes[from + 3] * 16777216 + bytes[from + 2] * 65536
         + bytes[from + 1] * 256 + bytes[from]
    ELSE bytes[from] * 16777216 + bytes[from + 1] * 65536
         + bytes[from + 2] * 256 + bytes[from + 3]

MessageHeader(direction, failure, type, id, payloadLength) ==
    [MessageDirection |-> direction, MessageFailure |-> failure, MessageType |-> type,
     MessageId |-> id, MessagePayloadLength |-> payloadLength]

\* bytes has at least 4 elements (ParseMessageHeader throws otherwise).
ParseMessageHeader(bytes, bigEndian) ==
    LET messageDesc == bytes[1]
    IN  MessageHeader(IF (messageDesc \div 128) % 2 = 0 THEN "Request" ELSE "Response",
                      (messageDesc \div 64) % 2 # 0,
                      messageDesc % 64,
                      bytes[2],
                      IF ~bigEndian
                      THEN bytes[4] * 256 + bytes[3]
                      ELSE bytes[3] * 256 + bytes[4])

\* messageDesc is the type's byte with bit 7 or-ed in for a response and bit
\* 6 for a failure.
SerializeMessageHeader(header, bigEndian) ==
    LET type == header.MessageType
        bit7 == header.MessageDirection = "Response" \/ (type \div 128) % 2 = 1
        bit6 == header.MessageFailure \/ (type \div 64) % 2 = 1
        messageDesc == (type % 64) + (IF bit6 THEN 64 ELSE 0) + (IF bit7 THEN 128 ELSE 0)
    IN  <<messageDesc, header.MessageId % 256>>
            \o ConvertToNetworkPayload16(header.MessagePayloadLength, bigEndian)

\* A layer that takes no part in a specification.
Unused == [pc |-> "unused"]

WireIdle ==
    /\ ftl = Unused
    /\ tls = Unused
    /\ codec = Unused

(***************************************************************************)
(* Initial state: Orchestrator constructed, Init() done, Run() listening.  *)
(***************************************************************************)
OrchestratorInit ==
    /\ connState = [c \in Conns |-> "none"]
    /\ hostname = [c \in Conns |-> NoHostname]
    /\ pendingConnections = {}
    /\ connections = {}
    /\ isStopping = FALSE
    /\ listening = TRUE
    /\ streamStore = EmptyStreamStore
    /\ subscriptions = EmptySubscriptionStore
    /\ net = [p \in Channels \X Conns |-> 0]
    /\ last = [op |-> "Init", conn |-> "", channelId |-> 0, streamId |-> 0,
               streamKey |-> EmptyKey, result |-> "void", sent |-> EmptyBag,
               logs |-> {},
               preStreams |-> EmptyStreamStore,
               preSubscriptions |-> EmptySubscriptionStore,
               wasStopping |-> FALSE]
    /\ nEvents = 0
    /\ introHandled = {}
    /\ subscribedKeys = [p \in Conns \X Channels |-> <<>>]
    /\ task = [c \in Conns |-> IdleTask]

Init ==
    /\ OrchestratorInit
    /\ WireIdle

(***************************************************************************)
(* Orchestrator: handlers.  Each action is one whole handler invocation.   *)
(* A connection delivers events from the moment it is handed over until    *)
(* its transport has published the closed event.                           *)
(***************************************************************************)
\* The connection the accept loop creates next.
NextAccepted ==
    LET fresh == {i \in 1..Len(ConnOrder) : connState[ConnOrder[i]] = "none"}
    IN  IF fresh = {} THEN {}
        ELSE {ConnOrder[CHOOSE i \in fresh : \A j \in fresh : i <= j]}

newConnection(c) ==
    /\ listening
    /\ c \in NextAccepted
    /\ pendingConnections' = pendingConnections \cup {c}
    /\ connState' = [connState EXCEPT ![c] = "open"]
    /\ Done("newConnection", c, 0, 0, EmptyKey, "void", EmptyBag,
            {"Orchestrator.cpp:194"})
    /\ UNCHANGED <<hostname, connections, introHandled, runVars, storeVars, net, task>>

\* The stop relays connectionClosed sends: one per subscription of the
\* connection whose channel has a stream.
ClosedRoutes(c) ==
    LET mine == GetSubscriptionsOfConnection(subscriptions, c)
        live == {sub.ChannelId : sub \in DOMAIN mine} \cap DOMAIN streamStore.streamByChannelId
    IN  [m \in {closeRoute(streamStore.streamByChannelId[ch], c) : ch \in live} |->
            BagCardinality(BagFilter(mine,
                LAMBDA sub : /\ sub.ChannelId \in live
                             /\ closeRoute(streamStore.streamByChannelId[sub.ChannelId], c) = m))]

connectionClosed(c) ==
    /\ connState[c] = "open"
    /\ connState' = [connState EXCEPT ![c] = "closed"]
    /\ IF isStopping
       THEN /\ Done("Closed", c, 0, 0, EmptyKey, "void", EmptyBag, {})
            /\ UNCHANGED <<pendingConnections, connections, streamStore, subscriptions, net>>
       ELSE LET sent == ClosedRoutes(c)
                streams == RemoveAllConnectionStreams(streamStore, c)
            IN  /\ Send(sent)
                /\ streamStore' = streams
                /\ IF ClearSubscriptionsThrows(subscriptions, c)
                   THEN /\ Done("Closed", c, 0, 0, EmptyKey, "threw", sent,
                                {"Orchestrator.cpp:212"})
                        /\ UNCHANGED <<subscriptions, pendingConnections, connections>>
                   ELSE /\ subscriptions' = ClearSubscriptions(subscriptions, c)
                        /\ pendingConnections' = pendingConnections \ {c}
                        /\ connections' = connections \ {c}
                        /\ Done("Closed", c, 0, 0, EmptyKey, "void", sent,
                                {"Orchestrator.cpp:212"})
    /\ UNCHANGED <<hostname, introHandled, runVars, subscribedKeys, task>>

\* A connectionIntro that leaves the connection in the pending set.
connectionIntro_KeepsPending(c, payloadHostname) ==
    /\ connState[c] = "open"
    /\ hostname' = [hostname EXCEPT ![c] = payloadHostname]
    /\ connections' = connections \cup {c}
    /\ introHandled' = introHandled \cup {c}
    /\ Done("Intro", c, 0, 0, EmptyKey, "success", EmptyBag, {"Orchestrator.cpp:243"})
    /\ UNCHANGED <<connState, pendingConnections, runVars, storeVars, net, task>>

connectionIntro(c, payloadHostname) ==
    /\ connState[c] = "open"
    /\ hostname' = [hostname EXCEPT ![c] = payloadHostname]
    /\ pendingConnections' = pendingConnections \ {c}
    /\ connections' = connections \cup {c}
    /\ introHandled' = introHandled \cup {c}
    /\ Done("Intro", c, 0, 0, EmptyKey, "success", EmptyBag, {"Orchestrator.cpp:243"})
    /\ UNCHANGED <<connState, runVars, storeVars, net, task>>

connectionOutro(c) ==
    /\ connState[c] = "open"
    /\ Done("Outro", c, 0, 0, EmptyKey, "success", EmptyBag, {"Orchestrator.cpp:272"})
    /\ UNCHANGED <<connVars, runVars, storeVars, net, task>>

connectionNodeState(c) ==
    /\ connState[c] = "open"
    /\ Done("NodeState", c, 0, 0, EmptyKey, "success", EmptyBag, {"Orchestrator.cpp:291"})
    /\ UNCHANGED <<connVars, runVars, storeVars, net, task>>

Subscribe(c, channelId, streamKey) ==
    /\ connState[c] = "open"
    /\ LET added == AddSubscription(subscriptions, c, channelId, streamKey)
           stream == GetStreamByChannelId(streamStore, channelId)
           sent == IF stream # {}
                   THEN BagOf(openRoute(CHOOSE s \in stream : TRUE, c, streamKey))
                   ELSE EmptyBag
       IN  /\ subscriptions' = added
           /\ Send(sent)
           /\ Done("Subscribe", c, channelId, 0, streamKey, "success", sent,
                   {"Orchestrator.cpp:313"})
    /\ subscribedKeys' = [subscribedKeys EXCEPT ![<<c, channelId>>] = Append(@, streamKey)]
    /\ UNCHANGED <<connVars, runVars, streamStore, task>>

Unsubscribe(c, channelId) ==
    /\ connState[c] = "open"
    /\ LET stream == GetStreamByChannelId(streamStore, channelId)
           sent == IF stream # {}
                   THEN BagOf(closeRoute(CHOOSE s \in stream : TRUE, c))
                   ELSE EmptyBag
           removed == RemoveSubscription(subscriptions, c, channelId)
       IN  /\ Send(sent)
           /\ subscriptions' = removed.store
           /\ Done("Unsubscribe", c, channelId, 0, EmptyKey,
                   IF removed.success THEN "success" ELSE "failure", sent,
                   {"Orchestrator.cpp:345"})
    /\ subscribedKeys' = [subscribedKeys EXCEPT ![<<c, channelId>>] = <<>>]
    /\ UNCHANGED <<connVars, runVars, streamStore, task>>

connectionChannelSubscription(c, isSubscribe, channelId, streamKey) ==
    IF isSubscribe
    THEN Subscribe(c, channelId, streamKey)
    ELSE Unsubscribe(c, channelId)

\* The start relays a publish sends: one per subscription to the channel.
PublishRoutes(newStream) ==
    LET channelSubs == GetSubscriptionsOfChannel(subscriptions, newStream.ChannelId)
    IN  [m \in {openRoute(newStream, sub.SubscribedConnection, sub.StreamKey) :
                    sub \in DOMAIN channelSubs} |->
            BagCardinality(BagFilter(channelSubs,
                LAMBDA sub : openRoute(newStream, sub.SubscribedConnection, sub.StreamKey) = m))]

Publish(c, channelId, streamId) ==
    /\ connState[c] = "open"
    /\ LET newStream == Stream(c, channelId, streamId)
       IN  IF AddStreamThrows(streamStore, newStream)
           THEN /\ Done("Publish", c, channelId, streamId, EmptyKey, "threw", EmptyBag,
                        {"Orchestrator.cpp:379"})
                /\ UNCHANGED <<streamStore, net>>
           ELSE LET sent == PublishRoutes(newStream)
                IN  /\ streamStore' = AddStream(streamStore, newStream)
                    /\ Send(sent)
                    /\ Done("Publish", c, channelId, streamId, EmptyKey, "success", sent,
                            {"Orchestrator.cpp:379"})
    /\ UNCHANGED <<connVars, runVars, subscriptions, subscribedKeys, task>>

Unpublish(c, channelId, streamId) ==
    /\ connState[c] = "open"
    /\ LET removed == RemoveStream(streamStore, channelId, streamId)
       IN  /\ streamStore' = removed.store
           /\ IF removed.removed # {}
              THEN Done("Unpublish", c, channelId, streamId, EmptyKey, "success",
                        EmptyBag, {"Orchestrator.cpp:410"})
              ELSE Done("Unpublish", c, channelId, streamId, EmptyKey, "failure",
                        EmptyBag, {"Orchestrator.cpp:410", "Orchestrator.cpp:425"})
    /\ UNCHANGED <<connVars, runVars, subscriptions, subscribedKeys, net, task>>

connectionStreamPublish(c, isPublish, channelId, streamId) ==
    IF isPublish
    THEN Publish(c, channelId, streamId)
    ELSE Unpublish(c, channelId, streamId)

\* The handler body is empty and control falls through to the throw.
connectionStreamRelay(c) ==
    /\ connState[c] = "open"
    /\ Done("StreamRelay", c, 0, 0, EmptyKey, "threw", EmptyBag, {})
    /\ UNCHANGED <<connVars, runVars, storeVars, net, task>>

(***************************************************************************)
(* Orchestrator: shutdown.                                                 *)
(***************************************************************************)
Stop ==
    /\ ~isStopping
    /\ isStopping' = TRUE
    /\ Done("Stop", "", 0, 0, EmptyKey, "void", EmptyBag, {})
    /\ UNCHANGED <<connVars, listening, storeVars, net, task>>

\* Run() after Listen() has returned: every tracked connection is stopped
\* (its closed event is ignored, isStopping being set), then the sets and
\* the stores are cleared.
Run ==
    /\ listening
    /\ isStopping
    /\ listening' = FALSE
    /\ connState' = [c \in Conns |->
                        IF c \in pendingConnections \cup connections
                        THEN "closed" ELSE connState[c]]
    /\ pendingConnections' = {}
    /\ connections' = {}
    /\ streamStore' = EmptyStreamStore
    /\ subscriptions' = EmptySubscriptionStore
    /\ Done("Run", "", 0, 0, EmptyKey, "void", EmptyBag, {})
    /\ UNCHANGED <<hostname, introHandled, isStopping, subscribedKeys, net, task>>

Next ==
    \/ \E c \in Conns : newConnection(c)
    \/ \E c \in Conns : connectionClosed(c)
    \/ \E c \in Conns, h \in Hostnames : connectionIntro(c, h)
    \/ \E c \in Conns : connectionOutro(c)
    \/ \E c \in Conns : connectionNodeState(c)
    \/ \E c \in Conns, isSubscribe \in BOOLEAN, ch \in Channels, k \in Keys :
           connectionChannelSubscription(c, isSubscribe, ch, k)
    \/ \E c \in Conns, isPublish \in BOOLEAN, ch \in Channels, s \in StreamIds :
           connectionStreamPublish(c, isPublish, ch, s)
    \/ \E c \in Conns : connectionStreamRelay(c)
    \/ Stop
    \/ Run

Spec == Init /\ [][Next]_vars

(***************************************************************************)
(* Handlers of different connections run on different threads (each        *)
(* connection's transport has its own), and the Orchestrator holds no lock *)
(* across a handler: only each store method is atomic, under the store's   *)
(* mutex.  ConcSpec runs the subscribe and publish branches one store call *)
(* or one send at a time, so that handlers of two connections interleave.  *)
(* A connection's own messages are handled one after the other.            *)
(***************************************************************************)
ConcInit ==
    /\ connState = [c \in Conns |-> "open"]
    /\ hostname = [c \in Conns |-> NoHostname]
    /\ pendingConnections = Conns
    /\ connections = {}
    /\ isStopping = FALSE
    /\ listening = TRUE
    /\ streamStore = EmptyStreamStore
    /\ subscriptions = EmptySubscriptionStore
    /\ net = [p \in Channels \X Conns |-> 0]
    /\ last = Handled("Init", "", 0, 0, EmptyKey, "void", EmptyBag, {})
    /\ nEvents = 0
    /\ introHandled = {}
    /\ subscribedKeys = [p \in Conns \X Channels |-> <<>>]
    /\ task = [c \in Conns |-> IdleTask]
    /\ WireIdle

ConcUnchanged == UNCHANGED <<connVars, runVars, last, wireVars>>

\* Orchestrator.cpp:319-322: the subscription is added.
BeginSubscribe(c, channelId, streamKey) ==
    /\ task[c].pc = "idle"
    /\ connState[c] = "open"
    /\ nEvents < MaxHandlers
    /\ nEvents' = nEvents + 1
    /\ subscriptions' = AddSubscription(subscriptions, c, channelId, streamKey)
    /\ subscribedKeys' = [subscribedKeys EXCEPT ![<<c, channelId>>] = Append(@, streamKey)]
    /\ task' = [task EXCEPT ![c] =
                   [IdleTask EXCEPT !.pc = "sub_get", !.op = "Subscribe",
                                    !.channelId = channelId, !.streamKey = streamKey]]
    /\ UNCHANGED <<streamStore, net>>
    /\ ConcUnchanged

\* Orchestrator.cpp:332: the stream of the channel is looked up.
SubscribeGetStream(c) ==
    /\ task[c].pc = "sub_get"
    /\ LET stream == GetStreamByChannelId(streamStore, task[c].channelId)
       IN  task' = [task EXCEPT ![c].stream = stream,
                                ![c].pc = IF stream = {} THEN "idle" ELSE "sub_open",
                                ![c].result = IF stream = {} THEN "success" ELSE "void"]
    /\ UNCHANGED <<storeVars, net, nEvents>>
    /\ ConcUnchanged

\* Orchestrator.cpp:335: the route to the subscriber is opened.
SubscribeOpenRoute(c) ==
    /\ task[c].pc = "sub_open"
    /\ LET sent == BagOf(openRoute(CHOOSE s \in task[c].stream : TRUE, c, task[c].streamKey))
       IN  /\ Send(sent)
           /\ task' = [task EXCEPT ![c].sent = sent, ![c].pc = "idle",
                                    ![c].result = "success"]
    /\ UNCHANGED <<storeVars, nEvents>>
    /\ ConcUnchanged

\* Orchestrator.cpp:387-393: the stream is added, or AddStream throws.
BeginPublish(c, channelId, streamId) ==
    /\ task[c].pc = "idle"
    /\ connState[c] = "open"
    /\ nEvents < MaxHandlers
    /\ nEvents' = nEvents + 1
    /\ LET newStream == Stream(c, channelId, streamId)
           begun == [IdleTask EXCEPT !.op = "Publish", !.channelId = channelId,
                                     !.streamId = streamId]
       IN  IF AddStreamThrows(streamStore, newStream)
           THEN /\ task' = [task EXCEPT ![c] = [begun EXCEPT !.result = "threw"]]
                /\ UNCHANGED streamStore
           ELSE /\ task' = [task EXCEPT ![c] = [begun EXCEPT !.pc = "pub_get"]]
                /\ streamStore' = AddStream(streamStore, newStream)
    /\ UNCHANGED <<subscriptions, subscribedKeys, net>>
    /\ ConcUnchanged

\* Orchestrator.cpp:396-397: the subscriptions to the channel are copied.
PublishGetSubscriptions(c) ==
    /\ task[c].pc = "pub_get"
    /\ LET channelSubs == GetSubscriptionsOfChannel(subscriptions, task[c].channelId)
       IN  task' = [task EXCEPT ![c].subs = channelSubs,
                                ![c].pc = IF channelSubs = EmptyBag THEN "idle" ELSE "pub_open",
                                ![c].result = IF channelSubs = EmptyBag THEN "success" ELSE "void"]
    /\ UNCHANGED <<storeVars, net, nEvents>>
    /\ ConcUnchanged

\* Orchestrator.cpp:398-401: a route is opened for the next copied subscription.
PublishOpenRoute(c) ==
    /\ task[c].pc = "pub_open"
    /\ \E sub \in DOMAIN task[c].subs :
           LET sent == BagOf(openRoute(Stream(c, task[c].channelId, task[c].streamId),
                                       sub.SubscribedConnection, sub.StreamKey))
               rest == task[c].subs (-) BagOf(sub)
           IN  /\ Send(sent)
               /\ task' = [task EXCEPT ![c].sent = @ (+) sent,
                                        ![c].subs = rest,
                                        ![c].pc = IF rest = EmptyBag THEN "idle" ELSE "pub_open",
                                        ![c].result = IF rest = EmptyBag THEN "success" ELSE "void"]
    /\ UNCHANGED <<storeVars, nEvents>>
    /\ ConcUnchanged

ConcNext ==
    \/ \E c \in Conns, channelId \in Channels, streamKey \in Keys :
           BeginSubscribe(c, channelId, streamKey)
    \/ \E c \in Conns : SubscribeGetStream(c)
    \/ \E c \in Conns : SubscribeOpenRoute(c)
    \/ \E c \in Conns, channelId \in Channels, streamId \in StreamIds :
           BeginPublish(c, channelId, streamId)
    \/ \E c \in Conns : PublishGetSubscriptions(c)
    \/ \E c \in Conns : PublishOpenRoute(c)

ConcSpec == ConcInit /\ [][ConcNext]_vars

\* C2: when E's Subscribe and I's Publish for one channel are the two
\* handlers that have run, on different threads and from empty stores, then
\* once both have returned exactly one start relay was sent to I that targets
\* E.
C2_ConcurrentSubscribePublish ==
    \A E \in Conns, I \in Conns, ch \in Channels :
        (/\ E # I
         /\ nEvents = 2
         /\ task[E].pc = "idle" /\ task[E].op = "Subscribe" /\ task[E].channelId = ch
         /\ task[I].pc = "idle" /\ task[I].op = "Publish" /\ task[I].channelId = ch) =>
            CountSent(task[E].sent (+) task[I].sent,
                      LAMBDA m : /\ m.IsStartRelay
                                 /\ m.To = I
                                 /\ m.Target = E
                                 /\ m.ChannelId = ch) = 1

(***************************************************************************)
(* FtlConnection: processing of one received message.  Each process...     *)
(* operator gives what the method does with a header and a payload when    *)
(* the upper layer's callback returns isSuccess: whether it threw, the     *)
(* payload it handed to the callback (none: <<>>), and the frames it wrote *)
(* to the transport.                                                       *)
(***************************************************************************)
Processed(threw, callback, writes) ==
    [threw |-> threw, callback |-> callback, writes |-> writes]

\* sendMessage: the serialized header followed by the payload.
sendMessage(header, payload, bigEndian) ==
    SerializeMessageHeader(header, bigEndian) \o payload

\* A response that never carries the failure flag.
Response_NeverFailure(header, type, failure, bigEndian) ==
    sendMessage(MessageHeader("Response", FALSE, type, header.MessageId, 0),
                <<>>, bigEndian)

\* A response to header: no payload, the given type and failure flag.
Response(header, type, failure, bigEndian) ==
    sendMessage(MessageHeader("Response", failure, type, header.MessageId, 0),
                <<>>, bigEndian)

Threw == Processed(TRUE, <<>>, <<>>)

\* SubSeq from position from (1-based) to the end of the payload.
From(payload, from) == SubSeq(payload, from, Len(payload))

processIntroMessage(header, payload, isSuccess, bigEndian) ==
    IF Len(payload) < 6
    THEN Threw
    ELSE LET regionCodeLength == DeserializeNetworkUint16(payload, 5, bigEndian)
         IN  IF regionCodeLength + 6 > Len(payload)
             THEN Processed(FALSE, <<>>,
                            <<Response(header, header.MessageType, TRUE, bigEndian)>>)
             ELSE Processed(FALSE,
                            <<[Type |-> MessageType_Intro,
                               VersionMajor |-> payload[1],
                               VersionMinor |-> payload[2],
                               VersionRevision |-> payload[3],
                               RelayLayer |-> payload[4],
                               RegionCode |-> SubSeq(payload, 7, 6 + regionCodeLength),
                               Hostname |-> From(payload, 7 + regionCodeLength)]>>,
                            <<Response(header, MessageType_Intro, ~isSuccess, bigEndian)>>)

processOutroMessage(header, payload, isSuccess, bigEndian) ==
    Processed(FALSE,
              <<[Type |-> MessageType_Outro, DisconnectReason |-> payload]>>,
              <<Response(header, MessageType_Outro, FALSE, bigEndian)>>)

processNodeStateMessage(header, payload, isSuccess, bigEndian) ==
    IF Len(payload) < 8
    THEN Processed(FALSE, <<>>,
                   <<Response(header, header.MessageType, TRUE, bigEndian)>>)
    ELSE Processed(FALSE,
                   <<[Type |-> MessageType_NodeState,
                      CurrentLoad |-> DeserializeNetworkUint32(payload, 1, bigEndian),
                      MaximumLoad |-> DeserializeNetworkUint32(payload, 5, bigEndian)]>>,
                   <<Response(header, header.MessageType, FALSE, bigEndian)>>)

processChannelSubscriptionMessage(header, payload, isSuccess, bigEndian) ==
    IF Len(payload) < 5
    THEN Threw
    ELSE Processed(FALSE,
                   <<[Type |-> MessageType_ChannelSubscription,
                      IsSubscribe |-> payload[1] = 1,
                      ChannelId |-> DeserializeNetworkUint32(payload, 2, bigEndian),
                      StreamKey |-> From(payload, 6)]>>,
                   <<Response(header, MessageType_ChannelSubscription, FALSE, bigEndian)>>)

processStreamPublishMessage(header, payload, isSuccess, bigEndian) ==
    IF Len(payload) < 9
    THEN Threw
    ELSE Processed(FALSE,
                   <<[Type |-> MessageType_StreamPublish,
                      IsPublish |-> payload[1] = 1,
                      ChannelId |-> DeserializeNetworkUint32(payload, 2, bigEndian),
                      StreamId |-> DeserializeNetworkUint32(payload, 6, bigEndian)]>>,
                   <<Response(header, MessageType_StreamPublish, FALSE, bigEndian)>>)

processStreamRelayMessage(header, payload, isSuccess, bigEndian) ==
    IF Len(payload) < 11
    THEN Threw
    ELSE LET hostnameLength == DeserializeNetworkUint16(payload, 10, bigEndian)
         IN  IF hostnameLength + 11 > Len(payload)
             THEN Processed(FALSE, <<>>,
                            <<Response(header, MessageType_StreamRelay, TRUE, bigEndian)>>)
             ELSE Processed(FALSE,
                            <<[Type |-> MessageType_StreamRelay,
                               IsStartRelay |-> payload[1] = 1,
                               ChannelId |-> DeserializeNetworkUint32(payload, 2, bigEndian),
                               StreamId |-> DeserializeNetworkUint32(payload, 6, bigEndian),
                               TargetHostname |-> SubSeq(payload, 12, 11 + hostnameLength),
                               StreamKey |-> From(payload, 12)]>>,
                            <<Response(header, MessageType_StreamRelay, FALSE, bigEndian)>>)

\* Responses and messages of other types are dropped.
processMessage(header, payload, isSuccess, bigEndian) ==
    IF header.MessageDirection = "Response"
    THEN Processed(FALSE, <<>>, <<>>)
    ELSE CASE header.MessageType = MessageType_Intro ->
                  processIntroMessage(header, payload, isSuccess, bigEndian)
           [] header.MessageType = MessageType_Outro ->
                  processOutroMessage(header, payload, isSuccess, bigEndian)
           [] header.MessageType = MessageType_NodeState ->
                  processNodeStateMessage(header, payload, isSuccess, bigEndian)
           [] header.MessageType = MessageType_ChannelSubscription ->
                  processChannelSubscriptionMessage(header, payload, isSuccess, bigEndian)
           [] header.MessageType = MessageType_StreamPublish ->
                  processStreamPublishMessage(header, payload, isSuccess, bigEndian)
           [] header.MessageType = MessageType_StreamRelay ->
                  processStreamRelayMessage(header, payload, isSuccess, bigEndian)
           [] OTHER -> Processed(FALSE, <<>>, <<>>)

(***************************************************************************)
(* CodecSpec: SerializeMessageHeader and ParseMessageHeader applied to a   *)
(* header, on a little-endian and on a big-endian build.                   *)
(***************************************************************************)
MessageIdSamples == {0, 1, 127, 128, 255}
PayloadLengthSamples == {0, 1, 255, 256, 257, 4660, 32768, 65535}

HeaderSamples ==
    {MessageHeader(direction, failure, type, id, payloadLength) :
        direction \in {"Request", "Response"}, failure \in BOOLEAN,
        type \in MessageTypes, id \in MessageIdSamples,
        payloadLength \in PayloadLengthSamples}

CodecInit ==
    /\ OrchestratorInit
    /\ ftl = Unused
    /\ tls = Unused
    /\ codec \in {[pc |-> "in", bigEndian |-> b, header |-> h] :
                     b \in BOOLEAN, h \in HeaderSamples}

\* The header is serialized and the bytes are parsed back.
SerializeAndParse ==
    /\ codec.pc = "in"
    /\ LET bytes == SerializeMessageHeader(codec.header, codec.bigEndian)
       IN  codec' = [pc |-> "out", bigEndian |-> codec.bigEndian,
                     header |-> codec.header, bytes |-> bytes,
                     parsed |-> ParseMessageHeader(bytes, codec.bigEndian)]
    /\ UNCHANGED <<connVars, runVars, storeVars, net, last, nEvents, task, ftl, tls>>

CodecNext == SerializeAndParse

CodecSpec == CodecInit /\ [][CodecNext]_vars

\* C20: for every header with one of the six message types, either
\* direction, either failure flag, a messageId in 0..255 and a payloadLength
\* in 0..65535, SerializeMessageHeader gives exactly 4 bytes and
\* ParseMessageHeader of them gives the header back.
C20_HeaderRoundTrip ==
    codec.pc = "out" =>
        /\ Len(codec.bytes) = 4
        /\ \A i \in 1..4 : codec.bytes[i] \in 0..255
        /\ codec.parsed = codec.header

\* C20 happens: a failure response header with a two-byte payload length
\* has been serialized and parsed on a big-endian build.
C20_Witness ==
    /\ codec.pc = "out"
    /\ codec.bigEndian
    /\ codec.header.MessageDirection = "Response"
    /\ codec.header.MessageFailure
    /\ codec.header.MessagePayloadLength = 4660
    /\ codec.header.MessageId = 255

(***************************************************************************)
(* EndianSpec: the integer conversions applied to 16- and 32-bit values,   *)
(* on a little-endian and on a big-endian build: each value is converted   *)
(* to its network payload, a header carrying the 16-bit value as its       *)
(* payload length is serialized, and bytes written most-significant byte   *)
(* first are deserialized.                                                 *)
(***************************************************************************)
Uint16Samples == PayloadLengthSamples \cup {258}
\* 32-bit values whose bytes are all below 128: read in either byte order
\* they stay below 2^31, the range the checker computes in.
Uint32Samples == {0, 1, 258, 65536, 16777216, 16909060, 2130772483}

\* The bytes of a value, most-significant byte first.
BigEndian16(value) == <<(value \div 256) % 256, value % 256>>

BigEndian32(value) ==
    <<(value \div 16777216) % 256, (value \div 65536) % 256,
      (value \div 256) % 256, value % 256>>

EndianInit ==
    /\ OrchestratorInit
    /\ ftl = Unused
    /\ tls = Unused
    /\ codec \in {[pc |-> "value", bigEndian |-> b, u16 |-> v16, u32 |-> v32] :
                     b \in BOOLEAN, v16 \in Uint16Samples, v32 \in Uint32Samples}

ConvertAndDeserialize ==
    /\ codec.pc = "value"
    /\ codec' = [pc |-> "wire", bigEndian |-> codec.bigEndian,
                 u16 |-> codec.u16, u32 |-> codec.u32,
                 sent16 |-> ConvertToNetworkPayload16(codec.u16, codec.bigEndian),
                 sent32 |-> ConvertToNetworkPayload32(codec.u32, codec.bigEndian),
                 sentHeader |->
                     SerializeMessageHeader(
                         MessageHeader("Request", FALSE, MessageType_Intro, 0, codec.u16),
                         codec.bigEndian),
                 read16 |-> DeserializeNetworkUint16(BigEndian16(codec.u16), 1,
                                                     codec.bigEndian),
                 read32 |-> DeserializeNetworkUint32(BigEndian32(codec.u32), 1,
                                                     codec.bigEndian),
                 readLength |->
                     ParseMessageHeader(<<0, 0>> \o BigEndian16(codec.u16),
                                        codec.bigEndian).MessagePayloadLength]
    /\ UNCHANGED <<connVars, runVars, storeVars, net, last, nEvents, task, ftl, tls>>

EndianNext == ConvertAndDeserialize

EndianSpec == EndianInit /\ [][EndianNext]_vars

\* C21: on every host, the header's payloadLength and every u16 / u32
\* payload field go on the wire most-significant byte first, and bytes read
\* from the wire are taken as most-significant byte first.
C21_BigEndianOnEveryHost ==
    codec.pc = "wire" =>
        /\ codec.sent16 = BigEndian16(codec.u16)
        /\ codec.sent32 = BigEndian32(codec.u32)
        /\ SubSeq(codec.sentHeader, 3, 4) = BigEndian16(codec.u16)
        /\ codec.read16 = codec.u16
        /\ codec.read32 = codec.u32
        /\ codec.readLength = codec.u16

(***************************************************************************)
(* FtlSpec: one FtlConnection fed by its transport.  The peer writes       *)
(* request frames to the stream; the transport hands the connection the    *)
(* bytes it read, in chunks of any size, and each chunk runs               *)
(* onTransportBytesReceived to its end.  The upper layer's callback        *)
(* returns IsSuccess true or false, or throws.  An exception leaves        *)
(* onTransportBytesReceived and the transport thread that called it (no    *)
(* caller catches it), so nothing more is read on that connection.         *)
(***************************************************************************)
MaxFrames == 2

RequestIds == {7, 200}

CallbackOutcomes == {"success", "failure", "throws"}

\* Payloads the peer sends: for each type a well-formed one, and the ones
\* that are too short or whose length prefix runs off the end.
PeerPayloads(bigEndian) ==
    LET u16(v) == ConvertToNetworkPayload16(v, bigEndian)
        u32(v) == ConvertToNetworkPayload32(v, bigEndian)
    IN  { [type |-> MessageType_Intro, payload |-> <<0, 1, 2, 0>> \o u16(1) \o <<114, 104>>],
          [type |-> MessageType_Intro, payload |-> <<0, 1, 2, 0>> \o u16(2) \o <<114>>],
          [type |-> MessageType_Intro, payload |-> <<0, 1, 2, 0, 0>>],
          [type |-> MessageType_Outro, payload |-> <<98>>],
          [type |-> MessageType_NodeState, payload |-> u32(1) \o u32(258)],
          [type |-> MessageType_NodeState, payload |-> u32(1) \o <<0, 0, 1>>],
          [type |-> MessageType_ChannelSubscription, payload |-> <<1>> \o u32(1) \o <<107>>],
          [type |-> MessageType_ChannelSubscription, payload |-> <<0>> \o u32(1)],
          [type |-> MessageType_ChannelSubscription, payload |-> <<1, 0, 0, 0>>],
          [type |-> MessageType_StreamPublish, payload |-> <<1>> \o u32(1) \o u32(2)],
          [type |-> MessageType_StreamPublish, payload |-> <<0>> \o u32(1) \o u32(2)],
          [type |-> MessageType_StreamPublish, payload |-> <<1>> \o u32(1) \o <<0, 0, 2>>],
          [type |-> MessageType_StreamRelay,
           payload |-> <<1>> \o u32(1) \o u32(2) \o u16(1) \o <<104, 107>>],
          [type |-> MessageType_StreamRelay,
           payload |-> <<1>> \o u32(1) \o u32(2) \o u16(3) \o <<104, 107>>],
          [type |-> MessageType_StreamRelay, payload |-> <<1>> \o u32(1) \o u32(2) \o <<0>>] }

\* Sizes of the chunks the transport reads: a header's worth (which splits
\* frames between header and payload, and inside a later frame's header),
\* or everything the peer has written.
ChunkSizes(wire) == {n \in {Len(SerializeMessageHeader(
                                   MessageHeader("Request", FALSE, MessageType_Intro, 0, 0),
                                   TRUE)),
                           Len(wire)} : n \in 1..Len(wire)}

\* The bytes of a request as the sending side's sendMessage writes them.
RequestFrame(type, id, payload, bigEndian) ==
    sendMessage(MessageHeader("Request", FALSE, type, id, Len(payload)),
                payload, bigEndian)

FtlInit ==
    /\ OrchestratorInit
    /\ tls = Unused
    /\ codec = Unused
    /\ \E bigEndian \in BOOLEAN :
          ftl = [pc |-> "open",
                 bigEndian |-> bigEndian,
                 framesSent |-> 0,
                 sentFrames |-> <<>>,
                 wire |-> <<>>,
                 transportReadBuffer |-> <<>>,
                 parsedTransportMessageHeader |-> <<>>,
                 bytesSent |-> 0,
                 processed |-> <<>>,
                 closedEvents |-> 0]

FtlUnchanged == UNCHANGED <<connVars, runVars, storeVars, net, last, nEvents,
                            introHandled, task, tls, codec>>

\* The peer writes one more request frame to the stream.
PeerSends(type, id, payload) ==
    /\ ftl.pc = "open"
    /\ ftl.framesSent < MaxFrames
    /\ LET frame == RequestFrame(type, id, payload, ftl.bigEndian)
       IN  ftl' = [ftl EXCEPT !.framesSent = @ + 1,
                              !.sentFrames = Append(@, frame),
                              !.bytesSent = @ + Len(frame),
                              !.wire = @ \o frame]
    /\ FtlUnchanged

\* processMessage with the callback's outcome: a callback that throws is
\* left by the exception before any response is written.
processMessageWith(header, payload, outcome, bigEndian) ==
    LET p == processMessage(header, payload, outcome = "success", bigEndian)
    IN  IF outcome = "throws" /\ p.callback # <<>>
        THEN Processed(TRUE, p.callback, <<>>)
        ELSE p

\* A read buffer that keeps only the bytes of the latest delivery.
insertAtEnd_Overwrites(buffer, bytes) ==
    bytes

\* A read buffer that puts the bytes of a delivery in front of what it holds.
insertAtEnd_AtFront(buffer, bytes) ==
    bytes \o buffer

\* transportReadBuffer.insert(transportReadBuffer.end(), ...)
insertAtEnd(buffer, bytes) ==
    buffer \o bytes

\* The transport read the next n bytes of the stream.
onTransportBytesReceived(n, outcome) ==
    /\ ftl.pc = "open"
    /\ n \in 1..Len(ftl.wire)
    /\ LET bytes == SubSeq(ftl.wire, 1, n)
           rest == SubSeq(ftl.wire, n + 1, Len(ftl.wire))
           buffer == insertAtEnd(ftl.transportReadBuffer, bytes)
           header == IF ftl.parsedTransportMessageHeader # <<>>
                     THEN ftl.parsedTransportMessageHeader
                     ELSE IF Len(buffer) >= 4
                          THEN <<ParseMessageHeader(buffer, ftl.bigEndian)>>
                          ELSE <<>>
       IN  IF header = <<>> \/ Len(buffer) - 4 < header[1].MessagePayloadLength
           THEN /\ outcome = "success"
                /\ ftl' = [ftl EXCEPT !.wire = rest,
                                      !.transportReadBuffer = buffer,
                                      !.parsedTransportMessageHeader = header]
           ELSE LET messagePayloadLength == header[1].MessagePayloadLength
                    messagePayload == SubSeq(buffer, 5, 4 + messagePayloadLength)
                    p == processMessageWith(header[1], messagePayload, outcome,
                                            ftl.bigEndian)
                    entry == [header |-> header[1], payload |-> messagePayload,
                              outcome |-> outcome, threw |-> p.threw,
                              callback |-> p.callback, writes |-> p.writes]
                IN  /\ p.callback = <<>> => outcome = "success"
                    /\ IF p.threw
                       THEN ftl' = [ftl EXCEPT !.pc = "threw",
                                               !.wire = rest,
                                               !.transportReadBuffer = buffer,
                                               !.parsedTransportMessageHeader = header,
                                               !.processed = Append(@, entry)]
                       ELSE ftl' = [ftl EXCEPT
                                       !.wire = rest,
                                       !.transportReadBuffer =
                                           SubSeq(buffer, 5 + messagePayloadLength,
                                                  Len(buffer)),
                                       !.parsedTransportMessageHeader = <<>>,
                                       !.processed = Append(@, entry)]
    /\ FtlUnchanged

\* The transport published its closed event.
onTransportConnectionClosed ==
    /\ ftl.pc = "open"
    /\ ftl' = [ftl EXCEPT !.pc = "closed", !.closedEvents = @ + 1]
    /\ FtlUnchanged

FtlNext ==
    \/ \E f \in PeerPayloads(ftl.bigEndian), id \in RequestIds :
          PeerSends(f.type, id, f.payload)
    \/ \E n \in ChunkSizes(ftl.wire), outcome \in CallbackOutcomes :
          onTransportBytesReceived(n, outcome)
    \/ onTransportConnectionClosed

FtlSpec == FtlInit /\ [][FtlNext]_vars

(***************************************************************************)
(* SplitSpec: the peer has written one complete message, and the transport *)
(* delivers its bytes in consecutive chunks of any sizes, down to one byte *)
(* at a time; the transport may close at any point.                        *)
(***************************************************************************)
SplitInit ==
    /\ OrchestratorInit
    /\ tls = Unused
    /\ codec = Unused
    /\ \E bigEndian \in BOOLEAN : \E f \in PeerPayloads(bigEndian), id \in RequestIds :
          LET frame == RequestFrame(f.type, id, f.payload, bigEndian)
          IN  ftl = [pc |-> "open",
                     bigEndian |-> bigEndian,
                     framesSent |-> 1,
                     wire |-> frame,
                     transportReadBuffer |-> <<>>,
                     parsedTransportMessageHeader |-> <<>>,
                     bytesSent |-> Len(frame),
                     processed |-> <<>>,
                     closedEvents |-> 0,
                     message |-> frame]

SplitNext ==
    \/ \E n \in 1..Len(ftl.wire), outcome \in CallbackOutcomes :
          onTransportBytesReceived(n, outcome)
    \/ onTransportConnectionClosed

SplitSpec == SplitInit /\ [][SplitNext]_vars

\* What a single delivery of the whole message does, the callback's outcome
\* given: the header and payload dispatched and what processMessage does.
SingleDelivery(message, outcome, bigEndian) ==
    LET header == ParseMessageHeader(message, bigEndian)
        payload == SubSeq(message, 5, 4 + header.MessagePayloadLength)
        p == processMessageWith(header, payload, outcome, bigEndian)
    IN  [header |-> header, payload |-> payload, outcome |-> outcome,
         threw |-> p.threw, callback |-> p.callback, writes |-> p.writes]

\* C22: however one complete message's bytes are split into deliveries, the
\* connection dispatches exactly once, with the header and payload (and the
\* effects) of a single delivery, and not before the last byte has arrived;
\* a transport that closes with part of a message buffered gives one closed
\* event and no dispatch.
C22_SplitDeliveryEquivalent ==
    (ftl.pc # "unused" /\ "message" \in DOMAIN ftl) =>
        /\ Len(ftl.processed) <= 1
        /\ ftl.wire # <<>> => ftl.processed = <<>>
        /\ ftl.wire = <<>> =>
               /\ Len(ftl.processed) = 1
               /\ ftl.processed[1] =
                      SingleDelivery(ftl.message, ftl.processed[1].outcome, ftl.bigEndian)
        /\ ftl.pc = "closed" => ftl.closedEvents = 1

\* A StreamRelay message arrived one byte at a time (its buffer held all but
\* the last byte, the header parsed) and was dispatched, the callback run.
C22_Witness ==
    /\ "message" \in DOMAIN ftl
    /\ ftl.wire = <<>>
    /\ Len(ftl.processed) = 1
    /\ ftl.processed[1].header.MessageType = MessageType_StreamRelay
    /\ ftl.processed[1].callback # <<>>
    /\ ftl.processed[1].outcome = "success"
    /\ ftl.transportReadBuffer = <<>>

\* Part of a message was buffered and the transport closed: a closed event
\* and no dispatch.
C22_WitnessClosed ==
    /\ "message" \in DOMAIN ftl
    /\ ftl.pc = "closed"
    /\ Len(ftl.transportReadBuffer) = 2
    /\ ftl.processed = <<>>

(***************************************************************************)
(* Properties of the connection's receive path (FtlSpec).                  *)
(***************************************************************************)
\* The fixed part of a request payload of the given type.
MinimumPayload(type) ==
    CASE type = MessageType_Intro -> 6
      [] type = MessageType_NodeState -> 8
      [] type = MessageType_ChannelSubscription -> 5
      [] type = MessageType_StreamPublish -> 9
      [] type = MessageType_StreamRelay -> 11
      [] OTHER -> 0

IsRequest(header) ==
    /\ header.MessageDirection = "Request"
    /\ header.MessageType \in MessageTypes

Underfilled(header, payload) ==
    /\ IsRequest(header)
    /\ Len(payload) < MinimumPayload(header.MessageType)

\* The length prefix of an Intro's region code or of a StreamRelay's
\* hostname runs off the end of the payload.
OversizePrefix(header, payload, bigEndian) ==
    /\ IsRequest(header)
    /\ ~Underfilled(header, payload)
    /\ \/ /\ header.MessageType = MessageType_Intro
          /\ DeserializeNetworkUint16(payload, 5, bigEndian) + 6 > Len(payload)
       \/ /\ header.MessageType = MessageType_StreamRelay
          /\ DeserializeNetworkUint16(payload, 10, bigEndian) + 11 > Len(payload)

WellFormed(header, payload, bigEndian) ==
    /\ IsRequest(header)
    /\ ~Underfilled(header, payload)
    /\ ~OversizePrefix(header, payload, bigEndian)

\* The frames a request must be answered with: one response of the
\* request's type and id, with no payload and the given failure flag.
AnsweredWith(header, failure, bigEndian) ==
    <<SerializeMessageHeader(
          MessageHeader("Response", failure, header.MessageType, header.MessageId, 0),
          bigEndian)>>

\* A complete frame sits at the head of the read buffer.
BufferedFrame ==
    /\ Len(ftl.transportReadBuffer) >= 4
    /\ Len(ftl.transportReadBuffer) - 4 >=
           ParseMessageHeader(ftl.transportReadBuffer, ftl.bigEndian).MessagePayloadLength

BufferedHeader == ParseMessageHeader(ftl.transportReadBuffer, ftl.bigEndian)

BufferedPayload ==
    SubSeq(ftl.transportReadBuffer, 5, 4 + BufferedHeader.MessagePayloadLength)

\* C13: every complete, well-formed request frame received is answered with
\* exactly one response of the same id and type and with no payload.  As a
\* property of finite runs: every such request the connection has processed
\* was answered so, and when the connection has read everything the peer
\* has written, no complete well-formed request is left in its read buffer
\* (a peer that waits for the answer before it writes again never gets it).
C13_EveryRequestAnswered ==
    ftl.pc # "unused" =>
        /\ \A i \in 1..Len(ftl.processed) :
              LET e == ftl.processed[i]
              IN  WellFormed(e.header, e.payload, ftl.bigEndian) =>
                      \E failure \in BOOLEAN :
                          e.writes = AnsweredWith(e.header, failure, ftl.bigEndian)
        /\ (ftl.pc # "closed" /\ ftl.wire = <<>> /\ BufferedFrame) =>
               ~WellFormed(BufferedHeader, BufferedPayload, ftl.bigEndian)

\* C14: for every request type, the response's failure flag is the negation
\* of the IsSuccess the upper layer's callback returned for the request.
C14_FailureIsNotSuccess ==
    ftl.pc # "unused" =>
        \A i \in 1..Len(ftl.processed) :
            LET e == ftl.processed[i]
            IN  (e.callback # <<>> /\ e.outcome # "throws") =>
                    e.writes = AnsweredWith(e.header, e.outcome = "failure",
                                            ftl.bigEndian)

\* Every frame processed without an exception has been erased from the read
\* buffer: the bytes the peer wrote are the erased frames, then the buffer,
\* then what the transport has not read yet.
RECURSIVE ErasedBytes(_)
ErasedBytes(processed) ==
    IF processed = <<>>
    THEN 0
    ELSE (IF Head(processed).threw THEN 0 ELSE 4 + Len(Head(processed).payload))
         + ErasedBytes(Tail(processed))

\* C15: an Intro or a StreamRelay whose length prefix exceeds the remaining
\* payload is answered with one response of the same id, failure set and no
\* payload; the callback is not invoked; the connection stays open (the
\* frame is erased from the read buffer and no exception leaves the
\* handler, so only the transport's closed event ends the connection).
C15_OversizePrefixRejected ==
    ftl.pc # "unused" =>
        \A i \in 1..Len(ftl.processed) :
            LET e == ftl.processed[i]
            IN  OversizePrefix(e.header, e.payload, ftl.bigEndian) =>
                    /\ e.writes = AnsweredWith(e.header, TRUE, ftl.bigEndian)
                    /\ e.callback = <<>>
                    /\ ~e.threw
                    /\ ftl.pc = "threw" => i < Len(ftl.processed)
                    /\ ftl.pc = "closed" => ftl.closedEvents = 1
                    /\ ftl.pc # "threw" =>
                           ErasedBytes(ftl.processed) + Len(ftl.transportReadBuffer)
                               + Len(ftl.wire) = ftl.bytesSent

\* An oversize Intro and an oversize StreamRelay were rejected, and the
\* request that followed the first was processed and handed to its callback.
C15_Witness ==
    /\ ftl.pc = "open"
    /\ Len(ftl.processed) = 2
    /\ OversizePrefix(ftl.processed[1].header, ftl.processed[1].payload, ftl.bigEndian)
    /\ ftl.processed[1].header.MessageType = MessageType_StreamRelay
    /\ ftl.processed[2].callback # <<>>
    /\ ftl.processed[2].writes # <<>>

\* C16: a request whose payload is shorter than the fixed part of its type
\* is a hard error: the callback is not invoked and the connection is
\* closed, the closure published to the upper layer.
C16_UnderfilledClosesConnection ==
    ftl.pc # "unused" =>
        \A i \in 1..Len(ftl.processed) :
            LET e == ftl.processed[i]
            IN  Underfilled(e.header, e.payload) =>
                    /\ e.callback = <<>>
                    /\ ftl.pc = "closed"
                    /\ ftl.closedEvents = 1

(***************************************************************************)
(* TlsSpec: the life of one started TlsConnectionTransport.  Its            *)
(* connection thread does the handshake and then polls the socket; other   *)
(* threads call Stop() (the Orchestrator shutting down, the connection's   *)
(* destructor) and Write() (handlers sending on this connection).          *)
(* isStopping and isStopped are atomics, but each test of one and the      *)
(* assignment that follows it are separate steps.                          *)
(***************************************************************************)
MaxStops == 2

Stoppers == {"stop1", "stop2"}

Closers == {"thread", "writer"}

CloseCauses == {"peer", "tlsError", "local"}

TlsInit ==
    /\ OrchestratorInit
    /\ ftl = Unused
    /\ codec = Unused
    /\ tls = [pc |-> "started",
              at |-> [p \in Stoppers \cup Closers |->
                         IF p = "thread" THEN "handshake" ELSE "idle"],
              isStopping |-> FALSE,
              isStopped |-> FALSE,
              socketClosed |-> FALSE,
              pipeClosed |-> FALSE,
              cause |-> "none",
              stops |-> 0,
              closedEvents |-> 0,
              socketCloses |-> 0,
              pipeCloses |-> 0]

TlsUnchanged == UNCHANGED <<connVars, runVars, storeVars, net, last, nEvents,
                            introHandled, task, ftl, codec>>

\* connectionThreadBody: SSL_accept / SSL_connect returned success.
HandshakeDone ==
    /\ tls.at["thread"] = "handshake"
    /\ tls' = [tls EXCEPT !.at["thread"] = "running"]
    /\ TlsUnchanged

\* connectionThreadBody: the handshake failed, poll reported POLLERR,
\* POLLHUP or POLLNVAL, or SSL_read / SSL_write returned an error it does
\* not continue after: the peer closed, TLS failed, or Stop() closed the
\* socket under it.  The thread calls closeConnection and returns.
ThreadDetects(cause) ==
    /\ tls.at["thread"] \in {"handshake", "running"}
    /\ cause = "local" <=> tls.socketClosed
    /\ tls' = [tls EXCEPT !.at["thread"] = "closeConnection", !.cause = cause]
    /\ TlsUnchanged

\* closeConnection: if (!isStopping)
closeConnectionTest(who) ==
    /\ tls.at[who] = "closeConnection"
    /\ tls' = [tls EXCEPT !.at[who] = IF tls.isStopping THEN "closePipe" ELSE "publish"]
    /\ TlsUnchanged

\* closeConnection: isStopping = true; shutdown; close; onConnectionClosed()
closeConnectionPublish(who) ==
    /\ tls.at[who] = "publish"
    /\ tls' = [tls EXCEPT !.at[who] = "closePipe",
                          !.isStopping = TRUE,
                          !.socketClosed = TRUE,
                          !.socketCloses = @ + 1,
                          !.closedEvents = @ + 1]
    /\ TlsUnchanged

\* closeConnection: if (!isStopped); when it is set, the return to the
\* caller (the thread then ends).
closeConnectionTestStopped(who) ==
    /\ tls.at[who] = "closePipe"
    /\ tls' = [tls EXCEPT !.at[who] = IF ~tls.isStopped THEN "closingPipe"
                                      ELSE IF who = "thread" THEN "ended" ELSE "idle"]
    /\ TlsUnchanged

\* closeConnection: close(writePipeFds[0]); close(writePipeFds[1]);
\* isStopped = true; and the return to the caller (the thread then ends).
closeConnectionClosePipe(who) ==
    /\ tls.at[who] = "closingPipe"
    /\ tls' = [tls EXCEPT !.at[who] = IF who = "thread" THEN "ended" ELSE "idle",
                          !.isStopped = TRUE,
                          !.pipeClosed = TRUE,
                          !.pipeCloses = @ + 1]
    /\ TlsUnchanged

\* Stop(): the tests of isStopping and isStopped.
Stop_Test(caller) ==
    /\ tls.at[caller] = "idle"
    /\ tls.stops < MaxStops
    /\ tls' = [tls EXCEPT !.stops = @ + 1,
                          !.at[caller] =
                              IF ~tls.isStopping /\ ~tls.isStopped THEN "shutdown"
                              ELSE IF tls.isStopping /\ ~tls.isStopped THEN "wait"
                              ELSE "idle"]
    /\ TlsUnchanged

\* Stop(): isStopping = true; SSL_shutdown; shutdown; close.
Stop_Shutdown(caller) ==
    /\ tls.at[caller] = "shutdown"
    /\ tls' = [tls EXCEPT !.at[caller] = "wait",
                          !.isStopping = TRUE,
                          !.socketClosed = TRUE,
                          !.socketCloses = @ + 1]
    /\ TlsUnchanged

\* Stop(): connectionThreadEndedFuture.wait() returns.
Stop_Return(caller) ==
    /\ tls.at[caller] = "wait"
    /\ tls.at["thread"] = "ended"
    /\ tls' = [tls EXCEPT !.at[caller] = "idle"]
    /\ TlsUnchanged

\* Write(): unless stopping or stopped, write to the pipe; a short write
\* calls closeConnection.
Write(short) ==
    /\ tls.at["writer"] = "idle"
    /\ tls' = IF ~tls.isStopping /\ ~tls.isStopped /\ short
              THEN [tls EXCEPT !.at["writer"] = "closeConnection"]
              ELSE tls
    /\ TlsUnchanged

TlsNext ==
    \/ HandshakeDone
    \/ \E cause \in CloseCauses : ThreadDetects(cause)
    \/ \E who \in Closers : closeConnectionTest(who)
    \/ \E who \in Closers : closeConnectionPublish(who)
    \/ \E who \in Closers : closeConnectionTestStopped(who)
    \/ \E who \in Closers : closeConnectionClosePipe(who)
    \/ \E caller \in Stoppers : Stop_Test(caller)
    \/ \E caller \in Stoppers : Stop_Shutdown(caller)
    \/ \E caller \in Stoppers : Stop_Return(caller)
    \/ \E short \in BOOLEAN : Write(short)

TlsSpec == TlsInit /\ [][TlsNext]_vars

\* The transport's life is over: its thread has ended and no call into it
\* is still running.
TlsOver ==
    /\ tls.at["thread"] = "ended"
    /\ \A p \in Stoppers \cup {"writer"} : tls.at[p] = "idle"

\* C18: a started transport publishes the closed event exactly once over its
\* life, whatever closes it (a local Stop(), the peer, a fatal TLS error)
\* and however often Stop() is called: never more than once, and once by
\* the time its life is over.
C18_ClosedPublishedExactlyOnce ==
    tls.pc # "unused" =>
        /\ tls.closedEvents <= 1
        /\ TlsOver => tls.closedEvents = 1

(***************************************************************************)
(* Properties of the routing core, handlers run one at a time (Spec).     *)
(***************************************************************************)
StreamOn(store, channelId) == channelId \in DOMAIN store.streamByChannelId

\* The subscriptions of connection c to channelId, by the by-connection index.
SubsByConnection(store, c, channelId) ==
    BagFilter(GetSubscriptionsOfConnection(store, c),
              LAMBDA sub : sub.ChannelId = channelId)

\* The subscriptions of connection c to channelId, by the by-channel index.
SubsByChannel(store, c, channelId) ==
    BagFilter(GetSubscriptionsOfChannel(store, channelId),
              LAMBDA sub : sub.SubscribedConnection = c)

Subscribed(store, c, channelId) ==
    \/ SubsByConnection(store, c, channelId) # EmptyBag
    \/ SubsByChannel(store, c, channelId) # EmptyBag

\* C1: for every (channel, subscriber) pair, start relays minus stop relays
\* sent so far is 1 if a stream on the channel and a subscription of the
\* subscriber to the channel both exist now, and 0 otherwise.
C1_RelayConservation ==
    \A ch \in Channels, c \in Conns :
        net[<<ch, c>>] =
            IF StreamOn(streamStore, ch) /\ Subscribed(subscriptions, c, ch)
            THEN 1 ELSE 0

\* C3: a publish that creates a stream sends its origin exactly one start
\* relay per subscription to the channel, with the stream's ids, the
\* subscriber's hostname and that subscription's key, and nothing else; a
\* subscribe to a channel with a live stream sends the stream's origin exactly
\* one start relay with the stream's ids, the subscriber's hostname and the
\* key of the subscribe.
C3_StartRelayPerNewPair ==
    /\ (last.op = "Publish" /\ last.result = "success") =>
           LET subs == GetSubscriptionsOfChannel(last.preSubscriptions, last.channelId)
           IN  /\ BagCardinality(last.sent) = BagCardinality(subs)
               /\ \A sub \in DOMAIN subs :
                      CopiesIn([To |-> last.conn, IsStartRelay |-> TRUE,
                                ChannelId |-> last.channelId,
                                StreamId |-> last.streamId,
                                TargetHostname |-> hostname[sub.SubscribedConnection],
                                Target |-> sub.SubscribedConnection,
                                StreamKey |-> sub.StreamKey], last.sent)
                      = CopiesIn(sub, subs)
    /\ (last.op = "Subscribe" /\ StreamOn(last.preStreams, last.channelId)) =>
           LET stream == last.preStreams.streamByChannelId[last.channelId]
           IN  last.sent = SetToBag({[To |-> stream.IngestConnection,
                                      IsStartRelay |-> TRUE,
                                      ChannelId |-> last.channelId,
                                      StreamId |-> stream.StreamId,
                                      TargetHostname |-> hostname[last.conn],
                                      Target |-> last.conn,
                                      StreamKey |-> last.streamKey]})

\* C3 happens: a connection has published a stream on a channel that
\* another, introduced connection was subscribed to.
C3_Witness ==
    /\ last.op = "Publish"
    /\ last.result = "success"
    /\ \E sub \in DOMAIN GetSubscriptionsOfChannel(last.preSubscriptions, last.channelId) :
           /\ sub.SubscribedConnection # last.conn
           /\ hostname[sub.SubscribedConnection] \in Hostnames

\* C4: an unsubscribe by a subscribed connection for a channel with a live
\* stream sends the stream's origin exactly one stop relay with the stream's
\* ids, the subscriber's hostname and an empty key, and afterwards neither
\* index of the SubscriptionStore holds a subscription of it to the channel.
C4_UnsubscribeStopsRelay ==
    (/\ last.op = "Unsubscribe"
     /\ Subscribed(last.preSubscriptions, last.conn, last.channelId)
     /\ StreamOn(last.preStreams, last.channelId)) =>
        LET stream == last.preStreams.streamByChannelId[last.channelId]
        IN  /\ last.sent = SetToBag({[To |-> stream.IngestConnection,
                                      IsStartRelay |-> FALSE,
                                      ChannelId |-> last.channelId,
                                      StreamId |-> stream.StreamId,
                                      TargetHostname |-> hostname[last.conn],
                                      Target |-> last.conn,
                                      StreamKey |-> EmptyKey]})
            /\ SubsByConnection(subscriptions, last.conn, last.channelId) = EmptyBag
            /\ SubsByChannel(subscriptions, last.conn, last.channelId) = EmptyBag

\* C4 happens: a subscribed connection has unsubscribed from a
\* channel whose stream another connection publishes.
C4_Witness ==
    /\ last.op = "Unsubscribe"
    /\ Subscribed(last.preSubscriptions, last.conn, last.channelId)
    /\ StreamOn(last.preStreams, last.channelId)
    /\ last.preStreams.streamByChannelId[last.channelId].IngestConnection # last.conn

\* C5: when a connection closes and the Orchestrator is not stopping, for
\* each channel it was subscribed to that had a stream the stream's origin is
\* sent exactly one stop relay naming the closed connection's hostname and the
\* channel, and no relay is sent for any other channel.
C5_CloseStopsEachRelayOnce ==
    (last.op = "Closed" /\ ~last.wasStopping) =>
        \A ch \in Channels :
            LET stops == BagFilter(last.sent, LAMBDA m : m.ChannelId = ch)
            IN  IF Subscribed(last.preSubscriptions, last.conn, ch)
                   /\ StreamOn(last.preStreams, ch)
                THEN LET stream == last.preStreams.streamByChannelId[ch]
                     IN  stops = SetToBag({[To |-> stream.IngestConnection,
                                            IsStartRelay |-> FALSE,
                                            ChannelId |-> ch,
                                            StreamId |-> stream.StreamId,
                                            TargetHostname |-> hostname[last.conn],
                                            Target |-> last.conn,
                                            StreamKey |-> EmptyKey]})
                ELSE stops = EmptyBag

\* C6: when a connection's last two subscribes to a channel carried different
\* keys and a stream is then published on the channel, the origin is sent
\* exactly one start relay for that subscriber, and it carries the key of the
\* second subscribe.
C6_ResubscribeReplacesKey ==
    (last.op = "Publish" /\ last.result = "success") =>
        \A c \in Conns :
            LET keys == subscribedKeys[<<c, last.channelId>>]
                n == Len(keys)
            IN  (n >= 2 /\ keys[n - 1] # keys[n] /\ connState[c] = "open") =>
                    BagFilter(last.sent, LAMBDA m : m.Target = c)
                        = SetToBag({[To |-> last.conn, IsStartRelay |-> TRUE,
                                     ChannelId |-> last.channelId,
                                     StreamId |-> last.streamId,
                                     TargetHostname |-> hostname[c],
                                     Target |-> c,
                                     StreamKey |-> keys[n]]})

\* C7: the SubscriptionStore holds at most one subscription per (subscriber,
\* channel) pair, in either index.
C7_SubscriptionUniqueness ==
    \A c \in Conns, ch \in Channels :
        /\ BagCardinality(SubsByConnection(subscriptions, c, ch)) <= 1
        /\ BagCardinality(SubsByChannel(subscriptions, c, ch)) <= 1

\* The streams of the by-origin lists, list entry by list entry, on a channel.
ListedStreams(store, channelId) ==
    {<<c, i>> \in Conns \X (1..MaxEvents + 1) :
        /\ c \in DOMAIN store.streamsByIngestConnection
        /\ i <= Len(store.streamsByIngestConnection[c])
        /\ store.streamsByIngestConnection[c][i].ChannelId = channelId}

\* C8: there is at most one stream per channel, in the by-channel index and
\* in the union of the by-origin lists.
C8_ChannelUniqueness ==
    \A ch \in Channels :
        /\ Cardinality({k \in DOMAIN streamStore.streamByChannelId :
                           streamStore.streamByChannelId[k].ChannelId = ch}) <= 1
        /\ Cardinality(ListedStreams(streamStore, ch)) <= 1

ActiveIffIntroducedAndOpen ==
    \A c \in Conns :
        /\ c \in connections <=> (connState[c] = "open" /\ c \in introHandled)
        /\ (connState[c] = "open" /\ c \notin introHandled) =>
               (c \in pendingConnections /\ c \notin connections)

C10_ActiveSetAsStated ==
    /\ ActiveIffIntroducedAndOpen
    /\ pendingConnections \cap connections = {}

\* C10 amended: while the Orchestrator is not stopping, a connection is in
\* the active set exactly if it was handed over, its Intro has been handled
\* and it has not been closed, and before its Intro it is in the pending set
\* only; at all times no connection is in both sets.
C10_ActiveSetWhileRunning ==
    /\ ~isStopping => ActiveIffIntroducedAndOpen
    /\ pendingConnections \cap connections = {}

\* C10 happens: the Orchestrator is running, one introduced connection has
\* been closed and another one is active.
C10_Witness ==
    /\ ~isStopping
    /\ \E c, d \in Conns :
           /\ connState[c] = "closed" /\ c \in introHandled
           /\ d \in connections

\* C11: no relay is ever sent that is addressed to, or names as its target,
\* a connection whose Intro has not been handled, whatever that connection
\* has sent and also when it closes.
C11_PendingInNoRoute ==
    \A m \in DOMAIN last.sent :
        /\ m.To \in introHandled
        /\ m.Target \in introHandled

\* The streams of the by-channel index whose origin is c.
StreamsOfOrigin(store, c) ==
    {ch \in DOMAIN store.streamByChannelId :
        store.streamByChannelId[ch].IngestConnection = c}

\* The subscriptions of the by-channel index whose subscriber is c.
SubsOfSubscriber(store, c) ==
    UNION {{sub \in DOMAIN store.subscriptionsByChannel[ch] :
               sub.SubscribedConnection = c} :
           ch \in DOMAIN store.subscriptionsByChannel}

\* C12: once a connection-closed event of c has been handled while not
\* stopping, c is in neither connection set, no stream of the StreamStore has
\* origin c and no subscription of the SubscriptionStore has subscriber c (c
\* is a key of neither per-connection index and occurs in no per-channel
\* entry).
C12_ClosedLeavesNoReference ==
    ~isStopping =>
        \A c \in Conns :
            connState[c] = "closed" =>
                /\ c \notin pendingConnections \cup connections
                /\ StreamsOfOrigin(streamStore, c) = {}
                /\ c \notin DOMAIN streamStore.streamsByIngestConnection
                /\ SubsOfSubscriber(subscriptions, c) = {}
                /\ c \notin DOMAIN subscriptions.subscriptionsByConnection

\* C12 happens: an introduced connection that published a stream and held a
\* subscription has been closed.
C12_Witness ==
    /\ last.op = "Closed"
    /\ ~last.wasStopping
    /\ last.conn \in introHandled
    /\ StreamsOfOrigin(last.preStreams, last.conn) # {}
    /\ SubsOfSubscriber(last.preSubscriptions, last.conn) # {}

\* C17: an unpublish for a (channel, stream) that is not in the StreamStore
\* leaves the streams and the subscriptions as they were, sends no relay and
\* returns success.
C17_UnpublishAbsentSucceeds ==
    (/\ last.op = "Unpublish"
     /\ ~(/\ StreamOn(last.preStreams, last.channelId)
          /\ last.preStreams.streamByChannelId[last.channelId].StreamId = last.streamId)) =>
        /\ streamStore = last.preStreams
        /\ subscriptions = last.preSubscriptions
        /\ last.sent = EmptyBag
        /\ last.result = "success"

\* C19: once the Orchestrator is stopping, a new connection is neither added
\* to the pending set nor started, a closed event changes no store and sends
\* no relay, and when Run() has completed the shutdown the pending set, the
\* active set, the StreamStore and the SubscriptionStore are empty.
C19_StoppingShortCircuits ==
    /\ (last.op = "newConnection" /\ last.wasStopping) =>
           /\ last.conn \notin pendingConnections
           /\ connState[last.conn] # "open"
    /\ (last.op = "Closed" /\ last.wasStopping) =>
           /\ streamStore = last.preStreams
           /\ subscriptions = last.preSubscriptions
           /\ last.sent = EmptyBag
    /\ last.op = "Run" =>
           /\ pendingConnections = {}
           /\ connections = {}
           /\ streamStore = EmptyStreamStore
           /\ subscriptions = EmptySubscriptionStore

\* C23: an inbound StreamRelay request reaching the Orchestrator is
\* accepted: the handler returns success (so the request is acknowledged
\* with a success response) and the stores and the connection sets are as
\* they were.
C23_InboundRelayAccepted ==
    last.op = "StreamRelay" =>
        /\ last.result = "success"
        /\ streamStore = last.preStreams
        /\ subscriptions = last.preSubscriptions

\* C24: a connection's hostname is set by its first Intro and never changes
\* afterwards: no step changes the hostname of a connection whose Intro has
\* been handled (so a stop StreamRelay names the target its start named).
C24_HostnameSetOnce ==
    [][\A c \in Conns : c \in introHandled => hostname'[c] = hostname[c]]_vars

\* Orchestrator::GetSubscribedChannels
GetSubscribedChannels(c) ==
    {sub.ChannelId : sub \in DOMAIN GetSubscriptionsOfConnection(subscriptions, c)}

\* The channels c has sent Subscribe for and has not since sent Unsubscribe
\* for, none once c has been closed.
SubscribedAndNotSince(c) ==
    IF connState[c] = "closed"
    THEN {}
    ELSE {ch \in Channels : subscribedKeys[<<c, ch>>] # <<>>}

\* C25: at any time GetSubscribedChannels(c) is the set of channels for
\* which c has sent Subscribe and has not since sent Unsubscribe or been
\* closed (so it is empty once c has unsubscribed from all of them).
C25_SubscribedChannelsAsStated ==
    \A c \in Conns : GetSubscribedChannels(c) = SubscribedAndNotSince(c)

\* C25 as the code has it: while the Orchestrator is not stopping,
\* GetSubscribedChannels(c) is the set of channels for which c has sent
\* Subscribe and has not since sent Unsubscribe or been closed.  (Once
\* stopping, closed events are not handled and a closed connection keeps its
\* subscriptions until Run() clears the store.)
C25_SubscribedChannelsWhileRunning ==
    ~isStopping => C25_SubscribedChannelsAsStated

\* c1 subscribed to both channels (twice to channel 1) and unsubscribed from
\* channel 1: only channel 2 is left.
C25_Witness ==
    /\ ~isStopping
    /\ last.op = "Unsubscribe"
    /\ last.conn = "c1"
    /\ last.channelId = 1
    /\ last.result = "success"
    /\ BagCardinality(SubsByConnection(last.preSubscriptions, "c1", 1)) = 2
    /\ GetSubscribedChannels("c1") = {2}

(***************************************************************************)
(* AcceptSpec: accepted connections and their TLS handshakes.  The accept  *)
(* loop hands each new connection to Orchestrator::newConnection, which    *)
(* puts it in the pending set and calls Start(); the transport's thread    *)
(* then runs the handshake, and when it fails calls closeConnection, which *)
(* publishes the closed event to the Orchestrator.                         *)
(***************************************************************************)
AcceptInit ==
    /\ OrchestratorInit
    /\ ftl = Unused
    /\ codec = Unused
    /\ tls = [pc |-> "listening", handshake |-> [c \in Conns |-> "none"]]

\* Listen(): accept, make the transport and the connection, onNewConnection.
Accepted(c) ==
    /\ tls.pc = "listening"
    /\ newConnection(c)

\* connectionThreadBody: the handshake loop ends, connected or not.
HandshakeEnds(c, connected) ==
    /\ connState[c] = "open"
    /\ tls.handshake[c] = "none"
    /\ tls' = [tls EXCEPT !.handshake[c] = IF connected THEN "connected" ELSE "failed"]
    /\ UNCHANGED <<connVars, runVars, storeVars, net, last, nEvents, task, ftl, codec>>

\* closeConnection after a failed handshake, or after the peer closed a
\* connected transport: onConnectionClosed.
TransportClosed(c) ==
    /\ tls.handshake[c] # "none"
    /\ connectionClosed(c)

\* A connected peer sends its Intro.
IntroReceived(c, payloadHostname) ==
    /\ tls.handshake[c] = "connected"
    /\ connectionIntro(c, payloadHostname)

AcceptNext ==
    \/ \E c \in Conns : Accepted(c)
    \/ \E c \in Conns, connected \in BOOLEAN : HandshakeEnds(c, connected)
    \/ \E c \in Conns : TransportClosed(c)
    \/ \E c \in Conns, h \in Hostnames : IntroReceived(c, h)
    \/ Stop

AcceptSpec == AcceptInit /\ [][AcceptNext]_vars

\* C26: a connection whose TLS handshake fails is never seen by the
\* Orchestrator: it is in neither the pending nor the active set, and no
\* Orchestrator callback runs for it.
C26_FailedHandshakeNeverSeen ==
    tls.pc = "listening" =>
        \A c \in Conns :
            tls.handshake[c] = "failed" =>
                /\ c \notin pendingConnections \cup connections
                /\ last.conn # c

(***************************************************************************)
(* StreamStoreSpec: any sequence of the StreamStore's methods, called with *)
(* any connection, channel and stream id.                                  *)
(***************************************************************************)
StreamStoreUnchanged ==
    UNCHANGED <<connVars, runVars, subscriptions, subscribedKeys, net, task>>

StreamStore_AddStream(c, channelId, streamId) ==
    /\ LET stream == Stream(c, channelId, streamId)
       IN  IF AddStreamThrows(streamStore, stream)
           THEN /\ streamStore' = streamStore
                /\ Done("AddStream", c, channelId, streamId, EmptyKey, "threw", EmptyBag, {})
           ELSE /\ streamStore' = AddStream(streamStore, stream)
                /\ Done("AddStream", c, channelId, streamId, EmptyKey, "void", EmptyBag, {})
    /\ StreamStoreUnchanged

StreamStore_RemoveStream(channelId, streamId) ==
    /\ LET removed == RemoveStream(streamStore, channelId, streamId)
       IN  /\ streamStore' = removed.store
           /\ Done("RemoveStream", "", channelId, streamId, EmptyKey,
                   IF removed.removed = {} THEN "nullopt" ELSE "stream", EmptyBag, {})
    /\ StreamStoreUnchanged

StreamStore_RemoveAllConnectionStreams(c) ==
    /\ streamStore' = RemoveAllConnectionStreams(streamStore, c)
    /\ Done("RemoveAllConnectionStreams", c, 0, 0, EmptyKey,
            IF c \in DOMAIN streamStore.streamsByIngestConnection THEN "streams" ELSE "nullopt",
            EmptyBag, {})
    /\ StreamStoreUnchanged

StreamStore_Clear ==
    /\ streamStore' = EmptyStreamStore
    /\ Done("Clear", "", 0, 0, EmptyKey, "void", EmptyBag, {})
    /\ StreamStoreUnchanged

StreamStoreNext ==
    \/ \E c \in Conns, channelId \in Channels, streamId \in StreamIds :
          StreamStore_AddStream(c, channelId, streamId)
    \/ \E channelId \in Channels, streamId \in StreamIds :
          StreamStore_RemoveStream(channelId, streamId)
    \/ \E c \in Conns : StreamStore_RemoveAllConnectionStreams(c)
    \/ StreamStore_Clear

StreamStoreSpec == Init /\ [][StreamStoreNext]_vars

\* The streams in the by-channel index, and those in the by-origin lists.
StreamsByChannel(store) ==
    {store.streamByChannelId[ch] : ch \in DOMAIN store.streamByChannelId}

StreamsByOrigin(store) ==
    UNION {{store.streamsByIngestConnection[c][i] :
                i \in 1..Len(store.streamsByIngestConnection[c])} :
           c \in DOMAIN store.streamsByIngestConnection}

\* C27: after any sequence of AddStream, RemoveStream,
\* RemoveAllConnectionStreams and Clear, a stream is in the by-channel index
\* if and only if it is in its origin's list of the by-origin index, and no
\* origin is mapped to an empty list.
C27_StreamIndicesAgree ==
    /\ StreamsByChannel(streamStore) = StreamsByOrigin(streamStore)
    /\ \A c \in DOMAIN streamStore.streamsByIngestConnection :
          /\ streamStore.streamsByIngestConnection[c] # <<>>
          /\ \A i \in 1..Len(streamStore.streamsByIngestConnection[c]) :
                streamStore.streamsByIngestConnection[c][i].IngestConnection = c

\* C29: RemoveStream(channelId, streamId) removes a stream only when the
\* stream stored for channelId has that streamId; when the stored streamId
\* differs (or the channel has no stream) it reports not found and leaves
\* both indices as they were.
C29_RemoveStreamChecksStreamId ==
    last.op = "RemoveStream" =>
        IF /\ last.channelId \in DOMAIN last.preStreams.streamByChannelId
           /\ last.preStreams.streamByChannelId[last.channelId].StreamId = last.streamId
        THEN last.result = "stream"
        ELSE /\ last.result = "nullopt"
             /\ streamStore = last.preStreams

(***************************************************************************)
(* SubscriptionStoreSpec: any sequence of the SubscriptionStore's methods, *)
(* called with any connection, channel and stream key.                     *)
(***************************************************************************)
SubscriptionStoreUnchanged ==
    UNCHANGED <<connVars, runVars, streamStore, subscribedKeys, net, task>>

SubscriptionStore_AddSubscription(c, channelId, streamKey) ==
    /\ subscriptions' = AddSubscription(subscriptions, c, channelId, streamKey)
    /\ Done("AddSubscription", c, channelId, 0, streamKey, "true", EmptyBag, {})
    /\ SubscriptionStoreUnchanged

SubscriptionStore_RemoveSubscription(c, channelId) ==
    /\ LET removed == RemoveSubscription(subscriptions, c, channelId)
       IN  /\ subscriptions' = removed.store
           /\ Done("RemoveSubscription", c, channelId, 0, EmptyKey,
                   IF removed.success THEN "true" ELSE "false", EmptyBag, {})
    /\ SubscriptionStoreUnchanged

SubscriptionStore_ClearSubscriptions(c) ==
    /\ IF ClearSubscriptionsThrows(subscriptions, c)
       THEN /\ subscriptions' = subscriptions
            /\ Done("ClearSubscriptions", c, 0, 0, EmptyKey, "threw", EmptyBag, {})
       ELSE /\ subscriptions' = ClearSubscriptions(subscriptions, c)
            /\ Done("ClearSubscriptions", c, 0, 0, EmptyKey, "void", EmptyBag, {})
    /\ SubscriptionStoreUnchanged

SubscriptionStore_Clear ==
    /\ subscriptions' = EmptySubscriptionStore
    /\ Done("Clear", "", 0, 0, EmptyKey, "void", EmptyBag, {})
    /\ SubscriptionStoreUnchanged

SubscriptionStoreNext ==
    \/ \E c \in Conns, channelId \in Channels, streamKey \in Keys :
          SubscriptionStore_AddSubscription(c, channelId, streamKey)
    \/ \E c \in Conns, channelId \in Channels :
          SubscriptionStore_RemoveSubscription(c, channelId)
    \/ \E c \in Conns : SubscriptionStore_ClearSubscriptions(c)
    \/ SubscriptionStore_Clear

SubscriptionStoreSpec == Init /\ [][SubscriptionStoreNext]_vars

\* C28: after any sequence of AddSubscription, RemoveSubscription,
\* ClearSubscriptions and Clear, a subscription is reachable from the
\* by-connection index if and only if it is reachable from the by-channel
\* index: under each connection and each channel the two indices hold the
\* same subscription objects, filed under their own connection and channel.
C28_SubscriptionIndicesAgree ==
    /\ \A c \in Conns, ch \in Channels :
          SubsByConnection(subscriptions, c, ch) = SubsByChannel(subscriptions, c, ch)
    /\ \A c \in DOMAIN subscriptions.subscriptionsByConnection :
          \A sub \in DOMAIN subscriptions.subscriptionsByConnection[c] :
              sub.SubscribedConnection = c /\ sub.ChannelId \in Channels
    /\ \A ch \in DOMAIN subscriptions.subscriptionsByChannel :
          \A sub \in DOMAIN subscriptions.subscriptionsByChannel[ch] :
              sub.ChannelId = ch /\ sub.SubscribedConnection \in Conns

\* c1 held two subscriptions to channel 1 and c2 one; ClearSubscriptions(c1)
\* left c2's subscription in both indices.
C28_Witness ==
    /\ last.op = "ClearSubscriptions"
    /\ last.conn = "c1"
    /\ BagCardinality(SubsByConnection(last.preSubscriptions, "c1", 1)) = 2
    /\ BagCardinality(SubsByChannel(subscriptions, "c2", 1)) = 1
    /\ "c1" \notin DOMAIN subscriptions.subscriptionsByConnection

\* ClearSubscriptions never finds the by-channel index without the channel
\* of one of the connection's subscriptions.
ClearSubscriptionsNeverThrows ==
    \A c \in Conns : ~ClearSubscriptionsThrows(subscriptions, c)

(***************************************************************************)
(* The peer closes a connection the Orchestrator tracks.  Each connection  *)
(* has its transport's I/O thread; the Orchestrator's handlers run on it,  *)
(* the closed handler inside closeConnection.  Run()'s loop stops the      *)
(* tracked connections from the main thread.  tls holds, per connection,   *)
(* the thread's position, the transport's two flags, and the state of the  *)
(* main thread's Stop() call.  The races on the flags between two callers  *)
(* are TlsSpec's subject; here each test of the flags is one step.         *)
(***************************************************************************)
CloseInit ==
    /\ OrchestratorInit
    /\ ftl = Unused
    /\ codec = Unused
    /\ tls = [pc |-> "threads",
              at |-> [c \in Conns |-> "running"],
              isStopping |-> [c \in Conns |-> FALSE],
              isStopped |-> [c \in Conns |-> FALSE],
              main |-> [c \in Conns |-> "idle"]]

CloseUnchanged ==
    UNCHANGED <<connVars, runVars, storeVars, net, last, nEvents, task, ftl, codec>>

\* A shared_ptr to the connection is held by the pending or the active set,
\* by a Stream (its IngestConnection) or by a ChannelSubscription.  The
\* callbacks bound in newConnection hold weak_ptr only.
Referenced(c) ==
    \/ c \in pendingConnections \cup connections
    \/ c \in DOMAIN streamStore.streamsByIngestConnection
    \/ \E ch \in DOMAIN streamStore.streamByChannelId :
           streamStore.streamByChannelId[ch].IngestConnection = c
    \/ c \in DOMAIN subscriptions.subscriptionsByConnection
    \/ \E ch \in DOMAIN subscriptions.subscriptionsByChannel :
           \E sub \in DOMAIN subscriptions.subscriptionsByChannel[ch] :
               sub.SubscribedConnection = c

\* The closed handler of some connection has run and its strongConnection
\* has not gone out of scope yet.
HandlerRunning ==
    \E c \in Conns : tls.at[c] = "callback" /\ connState[c] = "closed"

\* The connection's thread is in its poll loop and handles a message.
Delivered(c) ==
    /\ tls.at[c] = "running"
    /\ ~HandlerRunning

\* Stop(): which branch a call takes.
StopBranch(c) ==
    IF ~tls.isStopping[c] /\ ~tls.isStopped[c] THEN "shutdown"
    ELSE IF tls.isStopping[c] /\ ~tls.isStopped[c] THEN "wait"
    ELSE "return"

\* connectionThreadBody: poll or SSL_read reports that the peer closed the
\* connection, or that Stop() closed the socket; the thread calls
\* closeConnection.
Thread_SeesClose(c) ==
    /\ connState[c] = "open"
    /\ tls.at[c] = "running"
    /\ tls' = [tls EXCEPT !.at[c] = "closeConnection"]
    /\ CloseUnchanged

\* closeConnection: if (!isStopping) { isStopping = true; shutdown; close;
\* and on to the callback.
Thread_closeConnection(c) ==
    /\ tls.at[c] = "closeConnection"
    /\ tls' = IF ~tls.isStopping[c]
              THEN [tls EXCEPT !.at[c] = "callback", !.isStopping[c] = TRUE]
              ELSE [tls EXCEPT !.at[c] = "closePipe"]
    /\ CloseUnchanged

\* closeConnection: onConnectionClosed(), which is
\* FtlConnection::onTransportConnectionClosed and, through it,
\* Orchestrator::connectionClosed, up to the end of its if block.
Thread_onConnectionClosed(c) ==
    /\ tls.at[c] = "callback"
    /\ ~HandlerRunning
    /\ connectionClosed(c)

\* connectionClosed: strongConnection goes out of scope.  An exception of
\* the handler is caught nowhere on the thread.  If no other reference is
\* left, ~FtlConnection runs here, on the connection's own thread, and
\* calls Stop(), which is TlsConnectionTransport::Stop().
Thread_ReleaseConnection(c) ==
    /\ tls.at[c] = "callback"
    /\ connState[c] = "closed"
    /\ tls' = IF last.result = "threw"
              THEN [tls EXCEPT !.at[c] = "terminated"]
              ELSE IF Referenced(c)
              THEN [tls EXCEPT !.at[c] = "closePipe"]
              ELSE IF StopBranch(c) = "return"
              THEN [tls EXCEPT !.at[c] = "closePipe"]
              ELSE [tls EXCEPT !.at[c] = "wait", !.isStopping[c] = TRUE]
    /\ CloseUnchanged

\* closeConnection: if (!isStopped) { close the pipe; isStopped = true; }
\* and the thread returns from connectionThreadBody.
Thread_ClosePipe(c) ==
    /\ tls.at[c] = "closePipe"
    /\ tls' = [tls EXCEPT !.at[c] = "ended", !.isStopped[c] = TRUE]
    /\ CloseUnchanged

\* Run(): connection->Stop() for a tracked connection, from the main
\* thread, one connection after the other.
Main_StopConnection(c) ==
    /\ isStopping
    /\ connState[c] # "none"
    /\ c \in pendingConnections \cup connections
    /\ tls.main[c] = "idle"
    /\ \A d \in Conns : tls.main[d] # "wait"
    /\ tls' = IF StopBranch(c) = "return"
              THEN [tls EXCEPT !.main[c] = "returned"]
              ELSE [tls EXCEPT !.main[c] = "wait", !.isStopping[c] = TRUE]
    /\ CloseUnchanged

\* Stop(): connectionThreadEndedFuture.wait() returns, the connection's
\* thread having exited.
Future_Ready(c, caller) ==
    /\ tls.at[c] = "ended"
    /\ IF caller = "main" THEN tls.main[c] = "wait" ELSE tls.at[c] = "wait"
    /\ tls' = IF caller = "main"
              THEN [tls EXCEPT !.main[c] = "returned"]
              ELSE [tls EXCEPT !.at[c] = "closePipe"]
    /\ CloseUnchanged

CloseNext ==
    \/ \E c \in Conns : ~HandlerRunning /\ newConnection(c)
    \/ \E c \in Conns, h \in Hostnames : Delivered(c) /\ connectionIntro(c, h)
    \/ \E c \in Conns, ch \in Channels, k \in Keys :
           Delivered(c) /\ connectionChannelSubscription(c, TRUE, ch, k)
    \/ \E c \in Conns, ch \in Channels, s \in StreamIds :
           Delivered(c) /\ connectionStreamPublish(c, TRUE, ch, s)
    \/ ~HandlerRunning /\ Stop
    \/ \E c \in Conns : Thread_SeesClose(c)
    \/ \E c \in Conns : Thread_closeConnection(c)
    \/ \E c \in Conns : Thread_onConnectionClosed(c)
    \/ \E c \in Conns : Thread_ReleaseConnection(c)
    \/ \E c \in Conns : Thread_ClosePipe(c)
    \/ \E c \in Conns : Main_StopConnection(c)
    \/ \E c \in Conns, caller \in {"main", "thread"} : Future_Ready(c, caller)

CloseSpec == CloseInit /\ [][CloseNext]_vars

\* C30: when the peer closes a connection, handling always finishes: the
\* I/O thread runs the closed callback, marks the transport stopped and
\* exits, also when the closed handler dropped the last reference and the
\* destructor calls Stop() on the thread itself; no thread ever waits in
\* Stop() for its own exit, and none is ended by an uncaught exception.
C30_PeerCloseAlwaysFinishes ==
    tls.pc = "threads" =>
        \A c \in Conns : tls.at[c] \notin {"wait", "terminated"}

\* C31: when closeConnection runs on two tasks at once (a sender whose
\* Write to the outbound pipe came up short and the I/O thread that detected
\* the closure or a TLS error), the upper layer receives the closed event
\* at most once, and the socket and the outbound pipe are each closed at
\* most once.  Stop() is left out: the closes counted are closeConnection's.
C31_ConcurrentCloseOnce ==
    (tls.pc = "started" /\ tls.stops = 0) =>
        /\ tls.closedEvents <= 1
        /\ tls.socketCloses <= 1
        /\ tls.pipeCloses <= 1

(***************************************************************************)
(* ConcSpec with the closed handler, run one store call or one send at a   *)
(* time like the subscribe and publish branches.  A connection that has    *)
(* published its closed event delivers nothing further.                    *)
(***************************************************************************)
ConcCloseUnchanged == UNCHANGED <<hostname, introHandled, runVars, last, wireVars>>

\* Orchestrator.cpp:209-214: the connection's subscriptions are copied.
BeginClosed(c) ==
    /\ task[c].pc = "idle"
    /\ connState[c] = "open"
    /\ ~isStopping
    /\ nEvents < MaxHandlers
    /\ nEvents' = nEvents + 1
    /\ connState' = [connState EXCEPT ![c] = "closed"]
    /\ LET mine == GetSubscriptionsOfConnection(subscriptions, c)
       IN  task' = [task EXCEPT ![c] =
                       [IdleTask EXCEPT !.op = "Closed", !.subs = mine,
                                        !.pc = IF mine = EmptyBag THEN "close_streams"
                                               ELSE "close_get"]]
    /\ UNCHANGED <<pendingConnections, connections, storeVars, net>>
    /\ ConcCloseUnchanged

\* Orchestrator.cpp:216: the stream of the next copied subscription's
\* channel is looked up.
ClosedGetStream(c) ==
    /\ task[c].pc = "close_get"
    /\ \E sub \in DOMAIN task[c].subs :
           LET stream == GetStreamByChannelId(streamStore, sub.ChannelId)
               rest == task[c].subs (-) BagOf(sub)
           IN  task' = [task EXCEPT ![c].subs = rest,
                                    ![c].stream = stream,
                                    ![c].pc = IF stream # {} THEN "close_send"
                                              ELSE IF rest = EmptyBag THEN "close_streams"
                                              ELSE "close_get"]
    /\ UNCHANGED <<connState, pendingConnections, connections, storeVars, net, nEvents>>
    /\ ConcCloseUnchanged

\* Orchestrator.cpp:218: the route of that stream to the connection is closed.
ClosedCloseRoute(c) ==
    /\ task[c].pc = "close_send"
    /\ LET sent == BagOf(closeRoute(CHOOSE s \in task[c].stream : TRUE, c))
       IN  /\ Send(sent)
           /\ task' = [task EXCEPT ![c].sent = @ (+) sent,
                                    ![c].stream = {},
                                    ![c].pc = IF task[c].subs = EmptyBag THEN "close_streams"
                                              ELSE "close_get"]
    /\ UNCHANGED <<connState, pendingConnections, connections, storeVars, nEvents>>
    /\ ConcCloseUnchanged

\* Orchestrator.cpp:224: the connection's streams are removed.
ClosedRemoveStreams(c) ==
    /\ task[c].pc = "close_streams"
    /\ streamStore' = RemoveAllConnectionStreams(streamStore, c)
    /\ task' = [task EXCEPT ![c].pc = "close_clear"]
    /\ UNCHANGED <<connState, pendingConnections, connections, subscriptions,
                   subscribedKeys, net, nEvents>>
    /\ ConcCloseUnchanged

\* Orchestrator.cpp:226-230: the connection's subscriptions are cleared and
\* the connection leaves the pending and the active set.
ClosedClearSubscriptions(c) ==
    /\ task[c].pc = "close_clear"
    /\ IF ClearSubscriptionsThrows(subscriptions, c)
       THEN /\ task' = [task EXCEPT ![c].pc = "idle", ![c].result = "threw"]
            /\ UNCHANGED <<subscriptions, pendingConnections, connections>>
       ELSE /\ subscriptions' = ClearSubscriptions(subscriptions, c)
            /\ pendingConnections' = pendingConnections \ {c}
            /\ connections' = connections \ {c}
            /\ task' = [task EXCEPT ![c].pc = "idle"]
    /\ UNCHANGED <<connState, streamStore, subscribedKeys, net, nEvents>>
    /\ ConcCloseUnchanged

ConcCloseNext ==
    \/ ConcNext
    \/ \E c \in Conns : BeginClosed(c)
    \/ \E c \in Conns : ClosedGetStream(c)
    \/ \E c \in Conns : ClosedCloseRoute(c)
    \/ \E c \in Conns : ClosedRemoveStreams(c)
    \/ \E c \in Conns : ClosedClearSubscriptions(c)

ConcCloseSpec == ConcInit /\ [][ConcCloseNext]_vars

\* C32: when subscriber E's close is handled concurrently with I's Publish
\* on a channel E is subscribed to, then once both handlers have returned
\* no start relay is outstanding towards E on that channel: no start was
\* sent for E, or a stop followed it.
C32_NoStartLeftForClosedSubscriber ==
    \A E \in Conns, I \in Conns, ch \in Channels :
        (/\ E # I
         /\ \A c \in Conns : task[c].pc = "idle"
         /\ task[E].op = "Closed"
         /\ connState[I] = "open"
         /\ task[I].op = "Publish" /\ task[I].channelId = ch
         /\ task[I].result = "success") =>
            net[<<ch, E>>] <= 0

\* C33: when one delivery holds the bytes of several complete messages (or
\* the tail of one and whole further ones), every complete message in the
\* read buffer is dispatched, in order, without waiting for more bytes: when
\* a delivery has been handled, no complete frame is left at the head of the
\* read buffer.
C33_NoCompleteFrameLeftBuffered ==
    (ftl.pc = "open" /\ "message" \notin DOMAIN ftl) => ~BufferedFrame

\* A frame of a response to the request of the given header.
IsResponseTo(frame, header, bigEndian) ==
    /\ Len(frame) >= 4
    /\ LET h == ParseMessageHeader(frame, bigEndian)
       IN  /\ h.MessageDirection = "Response"
           /\ h.MessageType = header.MessageType
           /\ h.MessageId = header.MessageId

\* C34: on one connection, requests are dispatched in the order their
\* frames arrived on the wire (the i-th message processed is the i-th frame
\* the peer wrote), and the response to each request is handed to the
\* transport before the next request is dispatched (what a message's
\* processing writes answers that message, and a request handed to its
\* callback has its one response written when the next message is
\* processed).
C34_WireOrderAndResponseFirst ==
    (ftl.pc # "unused" /\ "sentFrames" \in DOMAIN ftl) =>
        /\ Len(ftl.processed) <= Len(ftl.sentFrames)
        /\ \A i \in 1..Len(ftl.processed) :
              LET e == ftl.processed[i]
                  frame == ftl.sentFrames[i]
              IN  /\ e.header = ParseMessageHeader(frame, ftl.bigEndian)
                  /\ e.payload = SubSeq(frame, 5, Len(frame))
                  /\ \A w \in 1..Len(e.writes) :
                        IsResponseTo(e.writes[w], e.header, ftl.bigEndian)
                  /\ (i < Len(ftl.processed) /\ e.callback # <<>>) =>
                         Len(e.writes) = 1

\* Two requests of different ids and types were written, delivered header
\* first, dispatched to their callbacks and answered.
C34_Witness ==
    /\ "sentFrames" \in DOMAIN ftl
    /\ Len(ftl.processed) = 2
    /\ ftl.processed[1].header.MessageId = 200
    /\ ftl.processed[2].header.MessageId = 7
    /\ ftl.processed[1].header.MessageType = MessageType_StreamPublish
    /\ ftl.processed[2].header.MessageType = MessageType_ChannelSubscription
    /\ \A i \in 1..2 : /\ ftl.processed[i].callback # <<>>
                       /\ Len(ftl.processed[i].writes) = 1
    /\ ftl.wire = <<>>
    /\ ftl.transportReadBuffer = <<>>

\* C35: an Unpublish is applied only when it comes from the stream's origin:
\* an Unpublish(channelId, streamId) handled for a connection other than the
\* one that published the stream leaves that stream in the StreamStore.
C35_UnpublishOnlyByOrigin ==
    (last.op = "Unpublish" /\ last.channelId \in DOMAIN last.preStreams.streamByChannelId) =>
        LET stream == last.preStreams.streamByChannelId[last.channelId]
        IN  (stream.IngestConnection # last.conn /\ stream.StreamId = last.streamId) =>
                GetStreamByChannelId(streamStore, last.channelId) = {stream}

\* C36: the store cleanup of a connection's close (RemoveAllConnectionStreams)
\* removes only streams whose origin is that connection: after any sequence
\* of publishes and unpublishes, every stream another connection published
\* is still returned by GetStreamByChannelId afterwards.
C36_CloseRemovesOnlyOwnStreams ==
    last.op = "RemoveAllConnectionStreams" =>
        \A ch \in DOMAIN last.preStreams.streamByChannelId :
            LET stream == last.preStreams.streamByChannelId[ch]
            IN  stream.IngestConnection # last.conn =>
                    GetStreamByChannelId(streamStore, ch) = {stream}

\* C37: a StreamRelay with IsStartRelay = false for a (channel, subscriber)
\* pair is emitted only while a start StreamRelay for that pair is
\* outstanding (stops never outnumber starts); in particular an Unsubscribe
\* from a connection that has no subscription on the channel emits no
\* StreamRelay, also when the channel has a live stream.
C37_StopOnlyWhileStartOutstanding ==
    /\ \A p \in Channels \X Conns : net[p] >= 0
    /\ (/\ last.op = "Unsubscribe"
        /\ SubsByConnection(last.preSubscriptions, last.conn, last.channelId) = EmptyBag) =>
           last.sent = EmptyBag

(***************************************************************************)
(* RelaySpec: a StreamRelay payload is sent by SendStreamRelay on one      *)
(* FtlConnection and decoded by processStreamRelayMessage on its peer, on  *)
(* builds of the same byte order.                                          *)
(***************************************************************************)
HostnameSamples == {<<>>, <<104>>, <<104, 49>>}
StreamKeySamples == {<<>>, <<107>>, <<107, 50>>}

RelayPayloadSamples ==
    {[IsStartRelay |-> isStartRelay, ChannelId |-> channelId, StreamId |-> streamId,
      TargetHostname |-> targetHostname, StreamKey |-> streamKey] :
        isStartRelay \in BOOLEAN, channelId \in {1, 258}, streamId \in {2, 65536},
        targetHostname \in HostnameSamples, streamKey \in StreamKeySamples}

\* SendStreamRelay: the request frame written to the transport.
SendStreamRelay(payload, id, bigEndian) ==
    LET messagePayload ==
            <<IF payload.IsStartRelay THEN 1 ELSE 0>>
            \o ConvertToNetworkPayload32(payload.ChannelId, bigEndian)
            \o ConvertToNetworkPayload32(payload.StreamId, bigEndian)
            \o ConvertToNetworkPayload16(Len(payload.TargetHostname), bigEndian)
            \o payload.TargetHostname
            \o payload.StreamKey
    IN  sendMessage(MessageHeader("Request", FALSE, MessageType_StreamRelay, id,
                                  Len(messagePayload)),
                    messagePayload, bigEndian)

RelayInit ==
    /\ OrchestratorInit
    /\ ftl = Unused
    /\ tls = Unused
    /\ codec \in {[pc |-> "relay", bigEndian |-> b, id |-> id, payload |-> p] :
                     b \in BOOLEAN, id \in RequestIds, p \in RelayPayloadSamples}

\* The payload is sent, and the peer parses the frame and hands the decoded
\* payload to its onStreamRelay callback.
SendAndDecode ==
    /\ codec.pc = "relay"
    /\ LET frame == SendStreamRelay(codec.payload, codec.id, codec.bigEndian)
           header == ParseMessageHeader(frame, codec.bigEndian)
           received == SubSeq(frame, 5, 4 + header.MessagePayloadLength)
           p == processMessage(header, received, TRUE, codec.bigEndian)
       IN  codec' = [pc |-> "decoded", bigEndian |-> codec.bigEndian, id |-> codec.id,
                     payload |-> codec.payload, frame |-> frame,
                     threw |-> p.threw, callback |-> p.callback]
    /\ UNCHANGED <<connVars, runVars, storeVars, net, last, nEvents, task, ftl, tls>>

RelayNext == SendAndDecode

RelaySpec == RelayInit /\ [][RelayNext]_vars

\* C38: decoding a StreamRelay payload produced by SendStreamRelay yields
\* the original fields: TargetHostname is the hostnameLen bytes from offset
\* 11 and StreamKey is exactly the bytes after the hostname.
C38_StreamRelayRoundTrip ==
    codec.pc = "decoded" =>
        /\ ~codec.threw
        /\ Len(codec.callback) = 1
        /\ codec.callback[1].IsStartRelay = codec.payload.IsStartRelay
        /\ codec.callback[1].ChannelId = codec.payload.ChannelId
        /\ codec.callback[1].StreamId = codec.payload.StreamId
        /\ codec.callback[1].TargetHostname = codec.payload.TargetHostname
        /\ codec.callback[1].StreamKey = codec.payload.StreamKey

(***************************************************************************)
(* WriteSpec: the outbound path of a connected transport.  Write() puts    *)
(* the bytes into the non-blocking pipe under writeMutex; the I/O thread   *)
(* takes up to BUFFER_SIZE bytes from the pipe and passes them to          *)
(* SSL_write on the non-blocking socket.  tls holds the bytes Write() has  *)
(* accepted, the pipe's content and the bytes the TLS stream has taken.    *)
(***************************************************************************)
MaxWrites == 3

\* BUFFER_SIZE and the pipe's capacity, scaled down.
BufferSize == 2

PipeCapacity == 4

WrittenSamples == {<<1>>, <<2, 3>>, <<4, 5, 6>>}

SslErrors == {"SSL_ERROR_NONE", "SSL_ERROR_WANT_READ", "SSL_ERROR_WANT_WRITE",
              "SSL_ERROR_ZERO_RETURN", "SSL_ERROR_SYSCALL"}

WriteInit ==
    /\ OrchestratorInit
    /\ ftl = Unused
    /\ codec = Unused
    /\ tls = [pc |-> "writing", open |-> TRUE, writes |-> 0,
              accepted |-> <<>>, pipe |-> <<>>, stream |-> <<>>, lastError |-> "none"]

WriteUnchanged ==
    UNCHANGED <<connVars, runVars, storeVars, net, last, nEvents, task, ftl, codec>>

\* Write(): unless stopping or stopped, the bytes go into the pipe; when
\* the pipe takes fewer than all of them, closeConnection.
Transport_Write(bytes) ==
    /\ tls.pc = "writing"
    /\ tls.writes < MaxWrites
    /\ LET room == PipeCapacity - Len(tls.pipe)
       IN  tls' = IF ~tls.open
                  THEN [tls EXCEPT !.writes = @ + 1]
                  ELSE IF Len(bytes) <= room
                  THEN [tls EXCEPT !.writes = @ + 1,
                                   !.accepted = @ \o bytes,
                                   !.pipe = @ \o bytes]
                  ELSE [tls EXCEPT !.writes = @ + 1,
                                   !.pipe = @ \o SubSeq(bytes, 1, room),
                                   !.open = FALSE]
    /\ WriteUnchanged

\* connectionThreadBody, write path: read from the pipe, SSL_write, and the
\* switch on SSL_get_error.  SSL_write takes the whole chunk or, with an
\* error, none of it.
Thread_WritePath(sslError) ==
    /\ tls.pc = "writing"
    /\ tls.open
    /\ tls.pipe # <<>>
    /\ LET readResult == IF Len(tls.pipe) < BufferSize THEN Len(tls.pipe) ELSE BufferSize
           writeBuffer == SubSeq(tls.pipe, 1, readResult)
           rest == SubSeq(tls.pipe, readResult + 1, Len(tls.pipe))
       IN  tls' = IF sslError = "SSL_ERROR_NONE"
                  THEN [tls EXCEPT !.pipe = rest, !.stream = @ \o writeBuffer,
                                   !.lastError = sslError]
                  ELSE IF sslError \in {"SSL_ERROR_WANT_READ", "SSL_ERROR_WANT_WRITE"}
                  THEN [tls EXCEPT !.pipe = rest, !.lastError = sslError]
                  ELSE [tls EXCEPT !.pipe = rest, !.open = FALSE, !.lastError = sslError]
    /\ WriteUnchanged

\* connectionThreadBody: the peer closed, poll reported an error, or the
\* read from the pipe failed: closeConnection.
Thread_Closes ==
    /\ tls.pc = "writing"
    /\ tls.open
    /\ tls' = [tls EXCEPT !.open = FALSE]
    /\ WriteUnchanged

WriteNext ==
    \/ \E bytes \in WrittenSamples : Transport_Write(bytes)
    \/ \E sslError \in SslErrors : Thread_WritePath(sslError)
    \/ Thread_Closes

WriteSpec == WriteInit /\ [][WriteNext]_vars

\* C39: every byte sequence Write() accepted on an open transport is handed
\* to the TLS stream completely and in the order written, or else the
\* transport closes; accepted bytes are never silently dropped, also when
\* SSL_write reports WANT_READ or WANT_WRITE.  While the transport is open,
\* the bytes the TLS stream has taken followed by the bytes in the pipe are
\* the bytes accepted.
C39_AcceptedBytesReachTls ==
    (tls.pc = "writing" /\ tls.open) =>
        tls.stream \o tls.pipe = tls.accepted

(***************************************************************************)
(* LockSpec: the mutexes the Orchestrator's operations hold when they call *)
(* into a connection.  Each operation is the sequence of its lock scopes   *)
(* and of its calls of Start, SendStreamRelay and Stop, in source order;   *)
(* a store method is one lock_guard scope of the store's mutex.  The       *)
(* handlers of a connection run on its thread, Run() and newConnection on  *)
(* the thread that called Run().  codec holds, per thread, the rest of the *)
(* operation it is in and the mutexes it holds, and the calls made so far  *)
(* with the mutexes held at the call.                                      *)
(***************************************************************************)
MaxOperations == 3

MaxRoutes == 2

Mutexes == {"connectionsMutex", "streamStoreMutex", "subscriptionsStoreMutex"}

Threads == Conns \cup {"main"}

\* A lock_guard scope with nothing but the guarded accesses inside.
Locked(mutex) ==
    <<[op |-> "lock", mutex |-> mutex], [op |-> "unlock", mutex |-> mutex]>>

\* A call into a connection.
Call(op) ==
    <<[op |-> op, mutex |-> "none"]>>

RECURSIVE Repeat(_, _)
Repeat(steps, n) ==
    IF n = 0 THEN <<>> ELSE steps \o Repeat(steps, n - 1)

\* A Run() that stops the connections inside the lock_guard's scope.
Script_Run_StopUnderLock(n) ==
    <<[op |-> "lock", mutex |-> "connectionsMutex"]>>
    \o Repeat(Call("Stop"), n)
    \o <<[op |-> "unlock", mutex |-> "connectionsMutex"]>>
    \o Locked("connectionsMutex")
    \o Locked("streamStoreMutex")
    \o Locked("subscriptionsStoreMutex")

\* Run() after Listen() returned, with n tracked connections.
Script_Run(n) ==
    Locked("connectionsMutex")
    \o Repeat(Call("Stop"), n)
    \o Locked("connectionsMutex")
    \o Locked("streamStoreMutex")
    \o Locked("subscriptionsStoreMutex")

Script_newConnection ==
    Locked("connectionsMutex") \o Call("Start")

\* connectionClosed with n subscriptions whose channel has a stream; at the
\* end of the block the lock_guard is destroyed before strongConnection,
\* whose release runs ~FtlConnection and its Stop().
Script_connectionClosed(n) ==
    Locked("subscriptionsStoreMutex")
    \o Repeat(Locked("streamStoreMutex") \o Call("SendStreamRelay"), n)
    \o Locked("streamStoreMutex")
    \o Locked("subscriptionsStoreMutex")
    \o Locked("connectionsMutex")
    \o Call("Stop")

Script_connectionIntro ==
    Locked("connectionsMutex")

\* The subscribe branch; n = 1 when the channel has a stream.
Script_Subscribe(n) ==
    Locked("subscriptionsStoreMutex")
    \o Locked("streamStoreMutex")
    \o Repeat(Call("SendStreamRelay"), n)

\* The unsubscribe branch; n = 1 when the channel has a stream.
Script_Unsubscribe(n) ==
    Locked("streamStoreMutex")
    \o Repeat(Call("SendStreamRelay"), n)
    \o Locked("subscriptionsStoreMutex")

\* The publish branch with n subscriptions to the channel.
Script_Publish(n) ==
    Locked("streamStoreMutex")
    \o Locked("subscriptionsStoreMutex")
    \o Repeat(Call("SendStreamRelay"), n)

Script_Unpublish ==
    Locked("streamStoreMutex")

\* The operations a thread can be in.
Scripts(t) ==
    IF t = "main"
    THEN {Script_newConnection} \cup {Script_Run(n) : n \in 0..MaxRoutes}
    ELSE {Script_connectionIntro, Script_Unpublish}
         \cup {Script_connectionClosed(n) : n \in 0..MaxRoutes}
         \cup {Script_Subscribe(n) : n \in 0..1}
         \cup {Script_Unsubscribe(n) : n \in 0..1}
         \cup {Script_Publish(n) : n \in 0..MaxRoutes}

LockInit ==
    /\ OrchestratorInit
    /\ ftl = Unused
    /\ tls = Unused
    /\ codec = [pc |-> "locks",
                script |-> [t \in Threads |-> <<>>],
                held |-> [t \in Threads |-> {}],
                operations |-> 0,
                calls |-> {}]

LockUnchanged ==
    UNCHANGED <<connVars, runVars, storeVars, net, last, nEvents, task, ftl, tls>>

\* A thread enters an operation.
Enter(t, script) ==
    /\ codec.script[t] = <<>>
    /\ codec.operations < MaxOperations
    /\ codec' = [codec EXCEPT !.script[t] = script, !.operations = @ + 1]
    /\ LockUnchanged

\* std::lock_guard's constructor: the thread waits until the mutex is free.
Lock(t) ==
    /\ codec.script[t] # <<>>
    /\ Head(codec.script[t]).op = "lock"
    /\ \A u \in Threads : Head(codec.script[t]).mutex \notin codec.held[u]
    /\ codec' = [codec EXCEPT !.script[t] = Tail(@),
                              !.held[t] = @ \cup {Head(codec.script[t]).mutex}]
    /\ LockUnchanged

\* std::lock_guard's destructor.
Unlock(t) ==
    /\ codec.script[t] # <<>>
    /\ Head(codec.script[t]).op = "unlock"
    /\ codec' = [codec EXCEPT !.script[t] = Tail(@),
                              !.held[t] = @ \ {Head(codec.script[t]).mutex}]
    /\ LockUnchanged

\* The thread calls Start, SendStreamRelay or Stop of a connection.
CallConnection(t) ==
    /\ codec.script[t] # <<>>
    /\ Head(codec.script[t]).op \notin {"lock", "unlock"}
    /\ codec' = [codec EXCEPT !.script[t] = Tail(@),
                              !.calls = @ \cup {[op |-> Head(codec.script[t]).op,
                                                 thread |-> t,
                                                 held |-> codec.held[t]]}]
    /\ LockUnchanged

LockNext ==
    \/ \E t \in Threads : \E script \in Scripts(t) : Enter(t, script)
    \/ \E t \in Threads : Lock(t)
    \/ \E t \in Threads : Unlock(t)
    \/ \E t \in Threads : CallConnection(t)

LockSpec == LockInit /\ [][LockNext]_vars

\* C40: the Orchestrator never calls a connection's Send* or Stop() while
\* it holds the connection-set mutex or the mutex of either store.
C40_NoCallUnderLock ==
    codec.pc = "locks" =>
        \A call \in codec.calls :
            call.op \in {"SendStreamRelay", "Stop"} => call.held = {}

\* Run() has stopped a connection and a handler on a connection's thread
\* has sent a StreamRelay, while another thread held a mutex.
C40_Witness ==
    /\ codec.pc = "locks"
    /\ \E call \in codec.calls : call.op = "Stop" /\ call.thread = "main"
    /\ \E call \in codec.calls : call.op = "SendStreamRelay" /\ call.thread = "c1"
    /\ codec.held["c2"] # {}

====
